---- MODULE Spec2Model ----
(***************************************************************************)
(* A model of the static-file responder of modernjs-send: the SendStream   *)
(* class (src/src/lib/send.ts), the serveStatic mount                      *)
(* (src/unnamed/part_001), the range parser (src/unnamed/part_003) and the *)
(* helpers they call.                                                      *)
(*                                                                         *)
(* Strings are sequences of one-character strings.  A request path is a    *)
(* sequence of tokens: a literal character, or a percent triplet ("%2e",   *)
(* "%00"), or a lone "%" (a malformed escape).  The platform is POSIX      *)
(* (path.sep = "/").                                                       *)
(***************************************************************************)
EXTENDS Integers, Sequences, FiniteSets, TLC

VARIABLES req, opts, file, res, ss, reader, mnt, log

vars == <<req, opts, file, res, ss, reader, mnt, log>>

----------------------------------------------------------------------------
(* Bounds of the model. *)

\* longest request path (in tokens) that InitPath enumerates
MaxPathLen == 5
\* largest file size on disk
MaxSize == 3
\* largest position / suffix length written in a Range header
MaxPos == 2

----------------------------------------------------------------------------
(* Strings *)

sep == "/"

RECURSIVE Join(_, _)
\* Array.prototype.join
Join(segs, c) ==
  IF Len(segs) = 0 THEN <<>>
  ELSE IF Len(segs) = 1 THEN segs[1]
  ELSE segs[1] \o <<c>> \o Join(Tail(segs), c)

\* String.prototype.split on a one-character separator
Split(s, c) ==
  LET seps == {i \in 1..Len(s) : s[i] = c}
      n == Cardinality(seps)
      pos[k \in 0..(n + 1)] ==
        IF k = 0 THEN 0
        ELSE IF k = n + 1 THEN Len(s) + 1
        ELSE CHOOSE i \in seps : Cardinality({j \in seps : j < i}) = k - 1
  IN [k \in 1..(n + 1) |-> SubSeq(s, pos[k - 1] + 1, pos[k] - 1)]

IsPrefix(p, s) == Len(p) <= Len(s) /\ SubSeq(s, 1, Len(p)) = p

DotDot == <<".", ".">>

RECURSIVE normalizeSegs(_, _, _)
\* path.posix normalizeString, segment by segment: "" and "." are dropped,
\* ".." pops the last segment unless there is none or it is itself "..",
\* in which case it is kept only when allowAboveRoot.
normalizeSegs(segs, acc, allowAboveRoot) ==
  IF Len(segs) = 0 THEN acc
  ELSE LET s == Head(segs)
           rest == Tail(segs)
       IN IF s = <<>> \/ s = <<".">> THEN normalizeSegs(rest, acc, allowAboveRoot)
          ELSE IF s = DotDot
               THEN IF Len(acc) > 0 /\ acc[Len(acc)] # DotDot
                    THEN normalizeSegs(rest, SubSeq(acc, 1, Len(acc) - 1), allowAboveRoot)
                    ELSE IF allowAboveRoot
                         THEN normalizeSegs(rest, Append(acc, s), allowAboveRoot)
                         ELSE normalizeSegs(rest, acc, allowAboveRoot)
               ELSE normalizeSegs(rest, Append(acc, s), allowAboveRoot)

normalizeString(path, allowAboveRoot) ==
  Join(normalizeSegs(Split(path, sep), <<>>, allowAboveRoot), sep)

\* the end of path.posix.normalize: "." for an empty relative result, the
\* trailing separator put back, the leading one of an absolute path
normalizeEnds(p0, isAbsolute, trailingSeparator) ==
  LET p1 == IF Len(p0) = 0 /\ ~isAbsolute THEN <<".">> ELSE p0
      p2 == IF Len(p1) > 0 /\ trailingSeparator THEN p1 \o <<sep>> ELSE p1
  IN IF isAbsolute THEN <<sep>> \o p2 ELSE p2

\* path.posix.normalize
normalize(path) ==
  IF Len(path) = 0 THEN <<".">>
  ELSE normalizeEnds(normalizeString(path, path[1] # sep), path[1] = sep,
                     path[Len(path)] = sep)

\* path.posix.join of two arguments
join(a, b) ==
  IF Len(a) = 0 /\ Len(b) = 0 THEN <<".">>
  ELSE IF Len(a) = 0 THEN normalize(b)
  ELSE IF Len(b) = 0 THEN normalize(a)
  ELSE normalize(a \o <<sep>> \o b)

\* process.cwd()
cwd == <<"/", "w">>

\* path.posix.resolve of one argument
resolve(path) ==
  LET full == IF Len(path) > 0 /\ path[1] = sep THEN path
              ELSE IF Len(path) = 0 THEN cwd
              ELSE cwd \o <<sep>> \o path
  IN <<sep>> \o normalizeString(full, FALSE)

\* !extname(path): the last non-empty segment has no "." after its first
\* character, or is ".."
noExtname(path) ==
  LET segs == Split(path, sep)
      ne == {k \in 1..Len(segs) : segs[k] # <<>>}
      b == IF ne = {} THEN <<>> ELSE segs[CHOOSE k \in ne : \A j \in ne : j <= k]
      dots == {i \in 1..Len(b) : b[i] = "."}
      startDot == IF dots = {} THEN 0 ELSE CHOOSE i \in dots : \A j \in dots : j <= i
  IN startDot = 0 \/ startDot = 1 \/ b = DotDot

----------------------------------------------------------------------------
(* Numbers in header text.  A decimal numeral is one token, ToString(n).   *)

\* largest numeral that appears in a header of the model
NumeralMax == MaxPos + MaxSize + 2

IsNumeral(tok) == \E n \in 0..NumeralMax : ToString(n) = tok

NumeralValue(tok) == CHOOSE n \in 0..NumeralMax : ToString(n) = tok

\* parseInt(s, 10): the value of a leading numeral, else NaN
parseInt(s) ==
  IF Len(s) > 0 /\ IsNumeral(s[1])
  THEN [nan |-> FALSE, v |-> NumeralValue(s[1])]
  ELSE [nan |-> TRUE, v |-> 0]

\* String.prototype.indexOf for a one-token needle; 0 when absent
indexOf(s, c) ==
  IF \E i \in 1..Len(s) : s[i] = c
  THEN CHOOSE i \in 1..Len(s) : s[i] = c /\ \A j \in 1..(i - 1) : s[j] # c
  ELSE 0

\* s.indexOf(sub) !== -1 for a token sequence sub
contains(s, sub) ==
  \E i \in 1..(Len(s) + 1 - Len(sub)) : SubSeq(s, i, i + Len(sub) - 1) = sub

----------------------------------------------------------------------------
(* range-parser (src/unnamed/part_003) *)

\* results that are not a list of ranges
RangeUnsatisfiable == "-1"
RangeMalformed == "-2"

\* one entry of the header: lines 43-70.  ok = FALSE when the entry is
\* skipped by the `continue` of line 63.
parseRangeEntry(size, entry) ==
  LET range == Split(entry, "-")
      p0 == parseInt(range[1])
      p1 == IF Len(range) >= 2 THEN parseInt(range[2]) ELSE [nan |-> TRUE, v |-> 0]
      \* -nnn
      \* -nnn: start = size - end, which is NaN when end is; end = size - 1
      startNaN == p0.nan /\ p1.nan
      start == IF p0.nan THEN size - p1.v ELSE p0.v
      \* nnn-: end = size - 1
      end1 == IF p0.nan \/ p1.nan THEN size - 1 ELSE p1.v
      \* limit last-byte-pos to current length
      end == IF end1 > size - 1 THEN size - 1 ELSE end1
  IN [ok |-> ~(startNaN \/ start > end \/ start < 0),
      start |-> start, end |-> end]

RECURSIVE InsertSorted(_, _, _)
InsertSorted(sorted, x, key) ==
  IF Len(sorted) = 0 THEN <<x>>
  ELSE IF x[key] < Head(sorted)[key] THEN <<x>> \o sorted
  ELSE <<Head(sorted)>> \o InsertSorted(Tail(sorted), x, key)

RECURSIVE SortAcc(_, _, _)
SortAcc(arr, acc, key) ==
  IF Len(arr) = 0 THEN acc
  ELSE SortAcc(Tail(arr), InsertSorted(acc, Head(arr), key), key)

\* Array.prototype.sort comparing the numeric field `key` (stable)
SortBy(arr, key) == SortAcc(arr, <<>>, key)

\* the field sortByRangeStart compares
sortByRangeStart == "start"

\* the field sortByRangeIndex compares
sortByRangeIndex == "index"

mapWithIndex(ranges) ==
  [k \in 1..Len(ranges) |-> [start |-> ranges[k].start, end |-> ranges[k].end, index |-> k - 1]]

mapWithoutIndex(ranges) ==
  [k \in 1..Len(ranges) |-> [start |-> ranges[k].start, end |-> ranges[k].end]]

Min(a, b) == IF a < b THEN a ELSE b

Max(a, b) == IF a > b THEN a ELSE b

RECURSIVE combineLoop(_, _, _)
\* the for loop of lines 87-100; i and j are 1-based here
combineLoop(ordered, i, j) ==
  IF i > Len(ordered) THEN SubSeq(ordered, 1, j)
  ELSE LET range == ordered[i]
           current == ordered[j]
       IN IF range.start > current.end + 1
          THEN combineLoop([ordered EXCEPT ![j + 1] = range], i + 1, j + 1)
          ELSE IF range.end > current.end
               THEN combineLoop(
                      [ordered EXCEPT ![j] = [start |-> current.start,
                                              end |-> range.end,
                                              index |-> Min(current.index, range.index)]],
                      i + 1, j)
               ELSE combineLoop(ordered, i + 1, j)

\* combineRanges merging overlapping ranges only, not adjacent ones
combineRanges_overlapOnly(ranges) ==
  LET ordered == SortBy(mapWithIndex(ranges), sortByRangeStart)
      trimmed == combineLoop([k \in 1..Len(ordered) |->
                                [ordered[k] EXCEPT !.end = @ - 1]], 2, 1)
  IN mapWithoutIndex(SortBy([k \in 1..Len(trimmed) |->
                               [trimmed[k] EXCEPT !.end = @ + 1]], sortByRangeIndex))

combineRanges(ranges) ==
  LET ordered == SortBy(mapWithIndex(ranges), sortByRangeStart)
      trimmed == combineLoop(ordered, 2, 1)
  IN mapWithoutIndex(SortBy(trimmed, sortByRangeIndex))

RECURSIVE parseEntries(_, _, _)
parseEntries(size, arr, ranges) ==
  IF Len(arr) = 0 THEN ranges
  ELSE LET r == parseRangeEntry(size, Head(arr))
       IN parseEntries(size, Tail(arr),
                       IF r.ok THEN Append(ranges, [start |-> r.start, end |-> r.end])
                       ELSE ranges)

\* rangeParser(size, str, {combine}): a result record; kind is "ranges",
\* RangeUnsatisfiable or RangeMalformed
rangeParser(size, str, combine) ==
  LET index == indexOf(str, "=")
  IN IF index = 0 THEN [kind |-> RangeMalformed, ranges |-> <<>>]
     ELSE LET arr == Split(SubSeq(str, index + 1, Len(str)), ",")
              ranges == parseEntries(size, arr, <<>>)
          IN IF Len(ranges) < 1 THEN [kind |-> RangeUnsatisfiable, ranges |-> <<>>]
             ELSE [kind |-> "ranges",
                   ranges |-> IF combine THEN combineRanges(ranges) ELSE ranges]

----------------------------------------------------------------------------
(* Request paths *)

\* decodeURIComponent of one token
decodeToken(t) ==
  CASE t = "%2e" -> "."
    [] t = "%00" -> "NUL"
    [] OTHER -> t

\* decode(path), lines 891-897: -1 (fail) when an escape is malformed
decode(path) ==
  IF \E i \in 1..Len(path) : path[i] = "%"
  THEN [fail |-> TRUE, s |-> <<>>]
  ELSE [fail |-> FALSE, s |-> [i \in 1..Len(path) |-> decodeToken(path[i])]]

IsSlash(c) == c = "/" \/ c = "\\"

\* UP_PATH_REGEXP.test(path), line 49: /(?:^|[\\/])\.\.(?:[\\/]|$)/
UP_PATH_REGEXP_test(path) ==
  \E i \in 1..(Len(path) - 1) :
    /\ path[i] = "." /\ path[i + 1] = "."
    /\ (i = 1 \/ IsSlash(path[i - 1]))
    /\ (i + 1 = Len(path) \/ IsSlash(path[i + 2]))

\* containsDotFile looking at the first part only
containsDotFile_first(parts) ==
  Len(parts) > 0 /\ Len(parts[1]) > 1 /\ parts[1][1] = "."

\* containsDotFile(parts), lines 836-845
containsDotFile(parts) ==
  \E i \in 1..Len(parts) : Len(parts[i]) > 1 /\ parts[i][1] = "."

\* fastparse(str).pathname, lines 88-129, for a str that starts with "/":
\* the text before the first "?"
pathnameOf(str) ==
  IF indexOf(str, "?") = 0 THEN str ELSE SubSeq(str, 1, indexOf(str, "?") - 1)

\* collapseLeadingSlashes(str), send.ts 822-831 and part_001 200-209
collapseLeadingSlashes(str) ==
  LET non == {i \in 1..Len(str) : str[i] # "/"}
      i == IF non = {} THEN Len(str) ELSE (CHOOSE k \in non : \A j \in non : k <= j) - 1
  IN IF i > 1 THEN <<"/">> \o SubSeq(str, i + 1, Len(str)) ELSE str

----------------------------------------------------------------------------
(* Headers: a header map is a function from lower-case names to values     *)
(* (token sequences); a header is present iff its name is in the domain.   *)

\* the names of the response headers, split after a "content-" prefix
ContentType == <<"content-", "type">>
ContentLength == <<"content-", "length">>
ContentRange == <<"content-", "range">>
ContentLocation == <<"content-", "location">>
ContentSecurityPolicy == <<"content-", "security-policy">>
XContentTypeOptions == <<"x-content-type-options">>
Location == <<"location">>
Allow == <<"allow">>
AcceptRanges == <<"accept-ranges">>
CacheControl == <<"cache-control">>
LastModified == <<"last-modified">>
ETag == <<"etag">>

NoHeaders == [n \in {} |-> <<>>]

getHeader(h, k) == IF k \in DOMAIN h THEN h[k] ELSE <<>>

withHeader(h, k, v) == [n \in DOMAIN h \cup {k} |-> IF n = k THEN v ELSE h[n]]

withoutHeader(h, k) == [n \in DOMAIN h \ {k} |-> h[n]]

withHeaders(h, more) ==
  [n \in DOMAIN h \cup DOMAIN more |-> IF n \in DOMAIN more THEN more[n] ELSE h[n]]

Num(n) == <<ToString(n)>>

\* an HTTP-date for the instant t (Date.prototype.toUTCString)
toUTCString(t) == <<"date", ToString(t)>>

\* parseHttpDate(date), lines 959-963
parseHttpDate(v) ==
  IF Len(v) = 2 /\ v[1] = "date" /\ IsNumeral(v[2])
  THEN [nan |-> FALSE, v |-> NumeralValue(v[2])]
  ELSE [nan |-> TRUE, v |-> 0]

\* etag(stat), on-finished/index.ts 218-234 and 268-273: a weak tag of
\* size and mtime
etag(stat) == <<"W/", "\"", ToString(stat.size) \o "-" \o ToString(stat.mtime), "\"">>

\* contentRange(type, size, range), lines 854-856
contentRange(type, size, range) ==
  <<type, " ">> \o (IF range.some THEN <<ToString(range.start), "-", ToString(range.end)>>
                    ELSE <<"*">>) \o <<"/", ToString(size)>>

NoRange == [some |-> FALSE, start |-> 0, end |-> 0]

SomeRange(r) == [some |-> TRUE, start |-> r.start, end |-> r.end]

\* BYTES_RANGE_REGEXP.test(v), line 38: /^ *bytes=/
BYTES_RANGE_REGEXP_test(v) ==
  \E i \in 1..(Len(v) - 1) :
    /\ \A j \in 1..(i - 1) : v[j] = " "
    /\ v[i] = "bytes" /\ v[i + 1] = "="

RECURSIVE parseTokenLoop(_, _, _, _, _)
\* parseTokenList(str), lines 970-997; i, start and end are 0-based as in
\* the source
parseTokenLoop(str, i, start, end, list) ==
  IF i >= Len(str) THEN Append(list, SubSeq(str, start + 1, end))
  ELSE LET c == str[i + 1]
       IN IF c = " "
          THEN IF start = end
               THEN parseTokenLoop(str, i + 1, i + 1, i + 1, list)
               ELSE parseTokenLoop(str, i + 1, start, end, list)
          ELSE IF c = ","
               THEN parseTokenLoop(str, i + 1, i + 1, i + 1,
                                   Append(list, SubSeq(str, start + 1, end)))
               ELSE parseTokenLoop(str, i + 1, start, i + 1, list)

parseTokenList(str) == parseTokenLoop(str, 0, 0, 0, <<>>)

\* the comparison without `"W/" + match !== etag`
etagMatches_noPrefixed(match, tag) ==
  match = tag \/ match = <<"W/">> \o tag

\* the comparison of one list member with the ETag, line 278
etagMatches(match, tag) ==
  match = tag \/ match = <<"W/">> \o tag \/ <<"W/">> \o match = tag

\* fresh(reqHeaders, resHeaders) of ../modules/fresh, called at send.ts 363
fresh(reqHeaders, resHeaders) ==
  LET modifiedSince == getHeader(reqHeaders, "if-modified-since")
      noneMatch == getHeader(reqHeaders, "if-none-match")
      tag == getHeader(resHeaders, ETag)
      lastModified == getHeader(resHeaders, LastModified)
      matches == parseTokenList(noneMatch)
      etagStale ==
        /\ noneMatch # <<>> /\ noneMatch # <<"*">>
        /\ (tag = <<>> \/ \A k \in 1..Len(matches) : ~etagMatches(matches[k], tag))
      modifiedStale ==
        /\ modifiedSince # <<>>
        /\ \/ lastModified = <<>>
           \/ parseHttpDate(lastModified).nan
           \/ parseHttpDate(modifiedSince).nan
           \/ ~(parseHttpDate(lastModified).v <= parseHttpDate(modifiedSince).v)
  IN /\ (modifiedSince # <<>> \/ noneMatch # <<>>)
     /\ ~etagStale
     /\ ~modifiedStale

----------------------------------------------------------------------------
(* The response object (http.ServerResponse) and the running state.        *)
(* The operators below transform a record w of the mutable state:          *)
(*   w.res, w.ss, w.reader, w.mnt, w.log.                                  *)
(* w.log.thrown is set when a call throws; the exception leaves the event  *)
(* handler uncaught, so every later step of the handler is skipped.        *)

World == [res |-> res, ss |-> ss, reader |-> reader, mnt |-> mnt, log |-> log]

Commit(w) ==
  /\ res' = w.res
  /\ ss' = w.ss
  /\ reader' = w.reader
  /\ mnt' = w.mnt
  /\ log' = w.log

Throw(w) == [w EXCEPT !.log.thrown = TRUE]

\* res.res_setHeader(k, v): throws once the headers are sent
res_setHeader(w, k, v) ==
  IF w.log.thrown THEN w
  ELSE IF w.res.headersSent THEN Throw(w)
  ELSE [w EXCEPT !.res.headers = withHeader(@, k, v)]

\* res.res_removeHeader(k): throws once the headers are sent
res_removeHeader(w, k) ==
  IF w.log.thrown THEN w
  ELSE IF w.res.headersSent THEN Throw(w)
  ELSE [w EXCEPT !.res.headers = withoutHeader(@, k)]

\* res.statusCode = status
res_statusCode(w, status) ==
  IF w.log.thrown THEN w ELSE [w EXCEPT !.res.statusCode = status]

\* the implicit writeHead of the first write: status and headers go on the wire
flushHeaders(r) ==
  IF r.headersSent THEN r
  ELSE [r EXCEPT !.headersSent = TRUE, !.sentStatus = r.statusCode, !.sentHeaders = r.headers]

\* res.end(doc) by the writer `kind`; a second end() does nothing
res_end(w, kind, doc) ==
  IF w.log.thrown THEN w
  ELSE LET w1 == [w EXCEPT !.log.ends = @ + 1, !.log.responses = Append(@, kind)]
       IN IF w.res.finished THEN w1
          ELSE [w1 EXCEPT !.res = [flushHeaders(@) EXCEPT !.finished = TRUE, !.doc = doc]]

\* this.emit(event) for the events of the lifecycle
emit(w, event) ==
  IF w.log.thrown THEN w ELSE [w EXCEPT !.log.events = Append(@, event)]

\* hasListeners(this, "error"): the mount always listens; a direct caller may
hasErrorListener == opts.mode = "mount" \/ opts.errorListener

\* hasListeners(this, "directory"): only the mount listens
hasDirectoryListener == opts.mode = "mount"

\* next(err) of the mount; status 0 stands for next() without an error
callNext(w, status) ==
  IF w.log.thrown THEN w ELSE [w EXCEPT !.mnt.nexts = Append(@, status)]

\* the error listener without the `return` after next(err)
mountOnError_noReturn(w, status) ==
  IF w.mnt.forwardError \/ ~(status < 500)
  THEN callNext(callNext(w, status), 0)
  ELSE callNext(w, 0)

\* the mount's error listener, part_001 183-190
mountOnError(w, status) ==
  IF w.mnt.forwardError \/ ~(status < 500)
  THEN callNext(w, status)
  ELSE callNext(w, 0)

\* clearHeaders(res), lines 809-815
clearHeaders(w) ==
  IF w.log.thrown THEN w
  ELSE IF DOMAIN w.res.headers = {} THEN w
  ELSE IF w.res.headersSent THEN Throw(w)
  ELSE [w EXCEPT !.res.headers = NoHeaders]

\* setHeaders(res, headers), lines 1005-1012
setHeaders(w, headers) ==
  IF w.log.thrown THEN w
  ELSE IF DOMAIN headers = {} THEN w
  ELSE IF w.res.headersSent THEN Throw(w)
  ELSE [w EXCEPT !.res.headers = withHeaders(@, headers)]

\* the four headers of an HTML document reply, lines 231-234 and 418-421
setDocHeaders(w) ==
  res_setHeader(res_setHeader(res_setHeader(res_setHeader(w,
    ContentType, <<"text/html; charset=UTF-8">>),
    ContentLength, <<"doc">>),
    ContentSecurityPolicy, <<"default-src 'self'">>),
    XContentTypeOptions, <<"nosniff">>)

\* error() without clearHeaders(res)
error_noClear(w, status, errHeaders) ==
  LET w0 == [w EXCEPT !.log.errors = Append(@, status)]
  IN IF hasErrorListener
     THEN LET w1 == emit(w0, "error")
          IN IF opts.mode = "mount" THEN mountOnError(w1, status) ELSE w1
     ELSE LET w2 == setHeaders(w0, errHeaders)
              w3 == res_statusCode(w2, status)
              w4 == setDocHeaders(w3)
          IN res_end(w4, "error", "error")

\* SendStream.error(status, err), lines 211-236; errHeaders are err.headers
error(w, status, errHeaders) ==
  LET w0 == [w EXCEPT !.log.errors = Append(@, status)]
  IN IF hasErrorListener
     THEN LET w1 == emit(w0, "error")
          IN IF opts.mode = "mount" THEN mountOnError(w1, status) ELSE w1
     ELSE LET w1 == clearHeaders(w0)
              w2 == setHeaders(w1, errHeaders)
              w3 == res_statusCode(w2, status)
              w4 == setDocHeaders(w3)
          IN res_end(w4, "error", "error")

\* onStatError(error), lines 344-355
onStatError(w, code) ==
  IF code \in {"ENAMETOOLONG", "ENOENT", "ENOTDIR"}
  THEN error(w, 404, NoHeaders)
  ELSE error(w, 500, NoHeaders)

\* hasTrailingSlash(), lines 243-245: of the path as given, not decoded
hasTrailingSlash(w) == Len(w.ss.path) > 0 /\ w.ss.path[Len(w.ss.path)] = "/"

\* encodeUrl of ../modules/encodeurl: escapes what is not yet an escape
encodeUrl(str) == [i \in 1..Len(str) |-> IF str[i] = "%" THEN "%25" ELSE str[i]]

\* the 301 reply, send.ts 417-423 and part_001 270-276
redirectReply(w, loc) ==
  LET w1 == res_statusCode(w, 301)
      w2 == setDocHeaders(w1)
      w3 == res_setHeader(w2, Location, loc)
  IN res_end(w3, "redirect", "redirect")

\* createNotFoundDirectoryListener, part_001 239-243
notFound(w) == error(w, 404, NoHeaders)

\* no parse memoized yet
NoParse == [some |-> FALSE, raw |-> <<>>, pathname |-> <<>>, search |-> <<>>]

\* fastparse(str) with `parsed._raw = str`, parseurl/index.ts 88-129 and
\* 46, 75, for a str that starts with "/" and has no blank and no "#"
fastparse(str) ==
  [some |-> TRUE, raw |-> str, pathname |-> pathnameOf(str),
   search |-> IF indexOf(str, "?") = 0 THEN <<>>
              ELSE SubSeq(str, indexOf(str, "?"), Len(str))]

\* fresh(url, parsedUrl) of parseurl, lines 138-140
parsedFresh(url, parsed) == parsed.some /\ parsed.raw = url

\* parseUrl(req), lines 28-49; the parse returned is w.mnt.parsedUrl
parseUrl(w) ==
  IF parsedFresh(req.url, w.mnt.parsedUrl) THEN w
  ELSE [w EXCEPT !.mnt.parsedUrl = fastparse(req.url)]

\* getOriginalUrl(req), lines 59-78, for a req.originalUrl that is a
\* string; the parse returned is w.mnt.parsedOriginalUrl
getOriginalUrl(w) ==
  IF parsedFresh(req.originalUrl, w.mnt.parsedOriginalUrl) THEN w
  ELSE [w EXCEPT !.mnt.parsedOriginalUrl = fastparse(req.originalUrl)]

\* the redirect listener taking the URL the mount sees (req.url)
redirectListener_mountRelative(w) ==
  IF hasTrailingSlash(w) THEN error(w, 404, NoHeaders)
  ELSE LET url == req.url
           q == indexOf(url, "?")
           search == IF q = 0 THEN <<>> ELSE SubSeq(url, q, Len(url))
           pathname == collapseLeadingSlashes(pathnameOf(url) \o <<"/">>)
       IN redirectReply(w, encodeUrl(pathname \o search))

\* createRedirectDirectoryListener, part_001 248-277
redirectListener(w) ==
  IF hasTrailingSlash(w) THEN error(w, 404, NoHeaders)
  ELSE LET w1 == getOriginalUrl(w)
           search == w1.mnt.parsedOriginalUrl.search
           pathname ==
             collapseLeadingSlashes(w1.mnt.parsedOriginalUrl.pathname \o <<"/">>)
       IN redirectReply([w1 EXCEPT !.mnt.parsedOriginalUrl.pathname = pathname],
                        encodeUrl(pathname \o search))

\* SendStream.redirect(path), lines 397-424
redirect(w, path) ==
  IF hasDirectoryListener
  THEN LET w1 == emit(w, "directory")
       IN IF opts.redirect THEN redirectListener(w1) ELSE notFound(w1)
  ELSE IF hasTrailingSlash(w) THEN error(w, 403, NoHeaders)
  ELSE redirectReply(w, encodeUrl(collapseLeadingSlashes(w.ss.path \o <<"/">>)))

\* mime.getType(path) of @modernjs/mime, called at line 756: a type for a
\* path whose file name has an extension
mimeType(path) == IF noExtname(path) THEN <<>> ELSE <<"text/html">>

\* SendStream.type(path), lines 751-765
type(w, path) ==
  IF getHeader(w.res.headers, ContentType) # <<>> THEN w
  ELSE IF mimeType(path) = <<>> THEN w
  ELSE res_setHeader(w, ContentType, mimeType(path))

\* the `headers` listener (the mount's setHeaders option, part_001 170-172):
\* it sets the headers opts.setHeaders names, none when there is no listener
headersHook(w) == setHeaders(w, opts.setHeaders)

\* setDefault without `&& !res.getHeader(name)`
setDefault_overwrite(w, option, name, value) ==
  IF option THEN res_setHeader(w, name, value) ELSE w

\* one step of setHeader, lines 778-800: `if (option && !res.getHeader(name))
\* res.setHeader(name, value)`
setDefault(w, option, name, value) ==
  IF option /\ getHeader(w.res.headers, name) = <<>>
  THEN res_setHeader(w, name, value) ELSE w

\* SendStream.setHeader(path, stat), lines 774-801
setHeader(w, path, stat) ==
  LET w0 == headersHook(emit(w, "headers"))
      w1 == setDefault(w0, opts.acceptRanges, AcceptRanges, <<"bytes">>)
      w2 == setDefault(w1, opts.cacheControl, CacheControl,
                       <<"public, max-age=", ToString(opts.maxage \div 1000)>>)
      w3 == setDefault(w2, opts.lastModified, LastModified, toUTCString(stat.mtime))
      w4 == setDefault(w3, opts.etag, ETag, etag(stat))
  IN w4

\* isConditionalGET(), lines 252-259
isConditionalGET ==
  \/ getHeader(req.headers, "if-match") # <<>>
  \/ getHeader(req.headers, "if-unmodified-since") # <<>>
  \/ getHeader(req.headers, "if-none-match") # <<>>
  \/ getHeader(req.headers, "if-modified-since") # <<>>

\* isPreconditionFailure without `isNaN(lastModified) ||`
isPreconditionFailure_noNaN(w) ==
  LET match == getHeader(req.headers, "if-match")
      tag == getHeader(w.res.headers, ETag)
      list == parseTokenList(match)
      unmodifiedSince == parseHttpDate(getHeader(req.headers, "if-unmodified-since"))
      lastModified == parseHttpDate(getHeader(w.res.headers, LastModified))
  IN IF match # <<>>
     THEN \/ tag = <<>>
          \/ /\ match # <<"*">>
             /\ \A k \in 1..Len(list) : ~etagMatches(list[k], tag)
     ELSE IF ~unmodifiedSince.nan
          THEN ~lastModified.nan /\ lastModified.v > unmodifiedSince.v
          ELSE FALSE

\* isPreconditionFailure(), lines 266-291
isPreconditionFailure(w) ==
  LET match == getHeader(req.headers, "if-match")
      tag == getHeader(w.res.headers, ETag)
      list == parseTokenList(match)
      unmodifiedSince == parseHttpDate(getHeader(req.headers, "if-unmodified-since"))
      lastModified == parseHttpDate(getHeader(w.res.headers, LastModified))
  IN IF match # <<>>
     THEN \/ tag = <<>>
          \/ /\ match # <<"*">>
             /\ \A k \in 1..Len(list) : ~etagMatches(list[k], tag)
     ELSE IF ~unmodifiedSince.nan
          THEN lastModified.nan \/ lastModified.v > unmodifiedSince.v
          ELSE FALSE

\* isCachable(), lines 334-337
isCachable(w) ==
  (w.res.statusCode >= 200 /\ w.res.statusCode < 300) \/ w.res.statusCode = 304

\* isFresh(), lines 362-367
isFresh(w) == fresh(req.headers, w.res.headers)

\* isRangeFresh(), lines 374-390
isRangeFresh(w) ==
  LET ifRange == getHeader(req.headers, "if-range")
      \* String(res.getHeader("ETag"))
      tag == IF ETag \in DOMAIN w.res.headers THEN w.res.headers[ETag] ELSE <<"undefined">>
      lastModified == parseHttpDate(getHeader(w.res.headers, LastModified))
      since == parseHttpDate(ifRange)
  IN IF ifRange = <<>> THEN TRUE
     ELSE IF indexOf(ifRange, "\"") # 0
          THEN tag # <<>> /\ contains(ifRange, tag)
          ELSE ~lastModified.nan /\ ~since.nan /\ lastModified.v <= since.v

\* removeContentHeaderFields(), lines 296-306
removeContentHeaderFields(w) ==
  LET drop == {n \in DOMAIN w.res.headers : n[1] = "content-" /\ n # ContentLocation}
  IN IF w.log.thrown \/ drop = {} THEN w
     ELSE IF w.res.headersSent THEN Throw(w)
     ELSE [w EXCEPT !.res.headers = [n \in DOMAIN @ \ drop |-> @[n]]]

\* notModified without removeContentHeaderFields()
notModified_noStrip(w) ==
  res_end(res_statusCode(w, 304), "notModified", "")

\* notModified(), lines 311-317
notModified(w) ==
  res_end(res_statusCode(removeContentHeaderFields(w), 304), "notModified", "")

----------------------------------------------------------------------------
(* Streaming *)

\* isFinished(msg) of on-finished, lines 40-46, for a ServerResponse
isFinished(r) == r.finished \/ ~r.socketWritable

\* onFinished(msg, listener), on-finished/index.ts 22-32 and 113-123: a
\* finished message defers the listener with setImmediate; otherwise the
\* listener joins the queue of msg.__onFinished (ss.queue), which
\* attachFinishedListener hooks to the events of the message and its socket
\* when it is created. log.registered keeps each registration, in order.
onFinished(w, l) ==
  IF isFinished(w.res)
  THEN [w EXCEPT !.ss.immediates = Append(@, l),
                 !.log.registered = Append(@, [l |-> l, late |-> TRUE])]
  ELSE [w EXCEPT !.ss.queue = Append(@, l),
                 !.log.registered = Append(@, [l |-> l, late |-> FALSE])]

\* SendStream.stream(path, options), lines 696-743: open the reader, emit
\* `stream`, pipe, and register the finished hook (onFinished, lines 22-32:
\* deferred by setImmediate when the response is already finished)
stream(w, path, start, end) ==
  LET w1 == [w EXCEPT !.reader = [state |-> "open", path |-> path, start |-> start,
                                  end |-> end, pos |-> start, read |-> <<>>,
                                  errored |-> FALSE],
                      !.log.opened = Append(@, path)]
      w2 == emit(w1, "stream")
  IN onFinished([w2 EXCEPT !.ss.pc = "streaming", !.ss.finished = FALSE], "send")

\* the listener given to onFinished without stream.destroy()
onResFinished_noDestroy(w) == [w EXCEPT !.ss.finished = TRUE]

\* the listener given to onFinished, lines 721-724
onResFinished(w) ==
  [w EXCEPT !.ss.finished = TRUE,
            !.reader.state = IF @ = "open" THEN "destroyed" ELSE @]

\* the reader's error listener without `finished = true; stream.destroy()`
onReaderError_noDestroy(w, code) ==
  IF w.ss.finished THEN w
  ELSE onStatError(w, code)

\* the reader's error listener without `if (finished) return`
onReaderError_noGuard(w, code) ==
  onStatError([w EXCEPT !.ss.finished = TRUE,
                        !.reader.state = IF @ = "open" THEN "destroyed" ELSE @],
              code)

\* the reader's error listener, lines 727-737
onReaderError(w, code) ==
  IF w.ss.finished THEN w
  ELSE onStatError([w EXCEPT !.ss.finished = TRUE,
                             !.reader.state = IF @ = "open" THEN "destroyed" ELSE @],
                   code)

----------------------------------------------------------------------------
(* Serving a file *)

\* lines 557-562: the window of the file that start/end leave
windowLen(size) ==
  LET offset == opts.start
      len == Max(0, size - offset)
      bytes == opts.end - offset + 1
  IN IF opts.hasEnd /\ len > bytes THEN bytes ELSE len

\* sendBody ending a HEAD before Content-Length is set
sendBody_headNoLength(w, path, offset, len) ==
  IF req.method = "HEAD"
  THEN res_end(w, "head", "")
  ELSE stream(res_setHeader(w, ContentLength, Num(len)), path, offset,
              Max(offset, offset + len - 1))

\* lines 604-622: Content-Length, then HEAD or the stream
sendBody(w, path, offset, len) ==
  IF req.method = "HEAD"
  THEN res_end(res_setHeader(w, ContentLength, Num(len)), "head", "")
  ELSE stream(res_setHeader(w, ContentLength, Num(len)), path, offset,
              Max(offset, offset + len - 1))

\* lines 567-574: the parsed Range header, "-2" when If-Range is stale
parseRange(w, len) ==
  IF ~isRangeFresh(w) THEN [kind |-> RangeMalformed, ranges |-> <<>>]
  ELSE rangeParser(len, getHeader(req.headers, "range"), TRUE)

\* the 416 without the Content-Range handed to the error
rangeNotSatisfiable_noHeaders(w, len) ==
  LET w1 == res_setHeader(w, ContentRange, contentRange("bytes", len, NoRange))
  IN error(w1, 416, NoHeaders)

\* lines 577-588: the 416 for an unsatisfiable Range
rangeNotSatisfiable(w, len) ==
  LET w1 == res_setHeader(w, ContentRange, contentRange("bytes", len, NoRange))
  IN error(w1, 416, [n \in {ContentRange} |-> getHeader(w1.res.headers, ContentRange)])

\* the single range without `offset += ranges[0].start`
singleRange_noOffset(w, path, offset, len, r) ==
  LET w1 == res_statusCode(w, 206)
      w2 == res_setHeader(w1, ContentRange, contentRange("bytes", len, SomeRange(r)))
  IN sendBody(w2, path, offset, r.end - r.start + 1)

\* lines 590-601: a single valid range narrows the window
singleRange(w, path, offset, len, r) ==
  LET w1 == res_statusCode(w, 206)
      w2 == res_setHeader(w1, ContentRange, contentRange("bytes", len, SomeRange(r)))
  IN sendBody(w2, path, offset + r.start, r.end - r.start + 1)

\* sendRanges taking the unsatisfiable result for a malformed one
sendRanges_noUnsatisfiable(w, path, offset, len, ranges) ==
  IF ranges.kind # RangeMalformed /\ ranges.kind # RangeUnsatisfiable
     /\ Len(ranges.ranges) = 1
  THEN singleRange(w, path, offset, len, ranges.ranges[1])
  ELSE sendBody(w, path, offset, len)

\* sendRanges answering several ranges with the first of them
sendRanges_firstOfMany(w, path, offset, len, ranges) ==
  IF ranges.kind = RangeUnsatisfiable THEN rangeNotSatisfiable(w, len)
  ELSE IF ranges.kind # RangeMalformed /\ Len(ranges.ranges) >= 1
       THEN singleRange(w, path, offset, len, ranges.ranges[1])
       ELSE sendBody(w, path, offset, len)

\* lines 576-601, for the parse result `ranges`
sendRanges(w, path, offset, len, ranges) ==
  IF ranges.kind = RangeUnsatisfiable THEN rangeNotSatisfiable(w, len)
  ELSE IF ranges.kind # RangeMalformed /\ Len(ranges.ranges) = 1
       THEN singleRange(w, path, offset, len, ranges.ranges[1])
       ELSE sendBody(w, path, offset, len)

\* lines 564-622: Range support, then the body
rangeSupport(w, path, offset, len) ==
  IF opts.acceptRanges /\ BYTES_RANGE_REGEXP_test(getHeader(req.headers, "range"))
  THEN sendRanges(w, path, offset, len, parseRange(w, len))
  ELSE sendBody(w, path, offset, len)

\* conditionalGET without the `return` after the 412
conditionalGET_noReturn(w, path, stat) ==
  IF isConditionalGET /\ isPreconditionFailure(w)
  THEN rangeSupport(error(w, 412, NoHeaders), path, opts.start, windowLen(stat.size))
  ELSE IF isConditionalGET /\ isCachable(w) /\ isFresh(w) THEN notModified(w)
  ELSE rangeSupport(w, path, opts.start, windowLen(stat.size))

\* conditionalGET looking at freshness before the preconditions
conditionalGET_freshFirst(w, path, stat) ==
  IF isConditionalGET /\ isCachable(w) /\ isFresh(w) THEN notModified(w)
  ELSE IF isConditionalGET /\ isPreconditionFailure(w) THEN error(w, 412, NoHeaders)
  ELSE rangeSupport(w, path, opts.start, windowLen(stat.size))

\* lines 544-622: conditional GET support, then the rest of send()
conditionalGET(w, path, stat) ==
  IF isConditionalGET /\ isPreconditionFailure(w) THEN error(w, 412, NoHeaders)
  ELSE IF isConditionalGET /\ isCachable(w) /\ isFresh(w) THEN notModified(w)
  ELSE rangeSupport(w, path, opts.start, windowLen(stat.size))

\* headersAlreadySent(), lines 322-326
headersAlreadySent(w) == error(w, 500, NoHeaders)

\* SendStream.send(path, stat), lines 521-623
send(w, path, stat) ==
  IF w.res.headersSent THEN headersAlreadySent(w)
  ELSE conditionalGET(type(setHeader(w, path, stat), path), path, stat)

\* fs.stat(p, callback): the call is recorded, the callback is pending
fsStat(w, probe, p, i) ==
  [w EXCEPT !.log.statted = Append(@, p),
            !.ss.pc = "stat", !.ss.probe = probe, !.ss.p = p, !.ss.i = i]

\* a `file` listener that leaves forwardError as it is
onFile_noForward(w) == w

\* the mount's `file` listener, part_001 175-180
onFile(w) ==
  IF opts.mode = "mount" /\ opts.fallthrough
  THEN [w EXCEPT !.mnt.forwardError = TRUE]
  ELSE w

\* a stat hit that emits `file` after send() instead of before it
serve_fileLast(w, p, stat) == onFile(emit(send(w, p, stat), "file"))

\* a stat hit, lines 644-645, 657-658 and 682-683
serve(w, p, stat) == send(onFile(emit(w, "file")), p, stat)

\* the `next` of sendFile answering 404 whatever the last error was
sendFileNext_always404(w, code) ==
  IF Len(opts.extensions) <= w.ss.i
  THEN error(w, 404, NoHeaders)
  ELSE fsStat(w, "ext", w.ss.resolved \o <<".">> \o opts.extensions[w.ss.i + 1], w.ss.i + 1)

\* the `next` of sendFile, lines 633-647; i counts the extensions tried,
\* code is "" for next() without an error
sendFileNext(w, code) ==
  IF Len(opts.extensions) <= w.ss.i
  THEN IF code # "" THEN onStatError(w, code) ELSE error(w, 404, NoHeaders)
  ELSE fsStat(w, "ext", w.ss.resolved \o <<".">> \o opts.extensions[w.ss.i + 1], w.ss.i + 1)

\* SendStream.sendFile(path), lines 630-660: up to the first stat
sendFile(w, path) ==
  fsStat([w EXCEPT !.ss.resolved = path], "file", path, 0)

\* the `next` of sendIndex, lines 670-685; i is the index of the candidate
\* tried last, -1 before the first
sendIndexNext(w, code) ==
  IF w.ss.i + 1 >= Len(opts.index)
  THEN IF code # "" THEN onStatError(w, code) ELSE error(w, 404, NoHeaders)
  ELSE fsStat(w, "index", join(w.ss.resolved, opts.index[w.ss.i + 2]), w.ss.i + 1)

\* SendStream.sendIndex(path), lines 667-688
sendIndex(w, path) ==
  sendIndexNext([w EXCEPT !.ss.resolved = path, !.ss.i = -1], "")

\* the callback of fs.stat, lines 641-646, 650-659 and 679-684, for the
\* outcome o = [kind: "file" | "dir" | "err", code]
statCallback(w, o) ==
  IF o.kind = "file" THEN serve(w, w.ss.p, file)
  ELSE IF w.ss.probe = "file"
  THEN IF o.kind = "dir" THEN redirect(w, w.ss.resolved)
       ELSE IF o.code = "ENOENT" /\ noExtname(w.ss.resolved)
               /\ w.ss.resolved[Len(w.ss.resolved)] # sep
            THEN sendFileNext(w, o.code)
            ELSE onStatError(w, o.code)
  ELSE IF w.ss.probe = "ext" THEN sendFileNext(w, o.code)
  ELSE sendIndexNext(w, o.code)

\* the dotfile policy, lines 488-503: "" to continue, else the error status
dotfileStatus(parts) ==
  IF ~containsDotFile(parts) THEN 0
  ELSE IF opts.dotfiles = "allow" THEN 0
  ELSE IF opts.dotfiles = "deny" THEN 403
  ELSE 404

\* this._root, line 190: null is the empty string here
root == IF opts.root # <<>> THEN resolve(opts.root) ELSE <<>>

\* lines 455-470: the path under a root
resolveUnder(rootPath, path) ==
  IF UP_PATH_REGEXP_test(path)
  THEN [status |-> 403, parts |-> <<>>, path |-> <<>>]
  ELSE [status |-> 0, parts |-> Split(path, sep), path |-> normalize(join(rootPath, path))]

\* resolvePath with the test for `..` made on the normalized path when
\* there is no root
resolvePath_testNormalized(decoded) ==
  IF opts.root # <<>>
  THEN resolveUnder(root, IF decoded # <<>> THEN normalize(<<".", sep>> \o decoded)
                          ELSE decoded)
  ELSE IF UP_PATH_REGEXP_test(normalize(decoded))
       THEN [status |-> 403, parts |-> <<>>, path |-> <<>>]
       ELSE [status |-> 0, parts |-> Split(normalize(decoded), sep),
             path |-> resolve(decoded)]

\* lines 453-485: [status, parts, path]; status 403 for a malicious path
resolvePath(decoded) ==
  IF opts.root # <<>>
  THEN resolveUnder(root, IF decoded # <<>> THEN normalize(<<".", sep>> \o decoded)
                          ELSE decoded)
  ELSE IF UP_PATH_REGEXP_test(decoded)
       THEN [status |-> 403, parts |-> <<>>, path |-> <<>>]
       ELSE [status |-> 0, parts |-> Split(normalize(decoded), sep),
             path |-> resolve(decoded)]

\* SendStream.pipe(res), lines 432-513
\* lines 437-485: the status pipe() refuses the path with (0 for none),
\* and the resolved path
checkPath(d) ==
  IF d.fail \/ \E i \in 1..Len(d.s) : d.s[i] = "NUL"
  THEN [status |-> 400, parts |-> <<>>, path |-> <<>>]
  ELSE resolvePath(d.s)

\* lines 487-513, for the result r of checkPath and the dotfile status
pipeChecked(w, r, dotfile) ==
  IF r.status # 0 THEN error(w, r.status, NoHeaders)
  ELSE IF dotfile # 0 THEN error(w, dotfile, NoHeaders)
  ELSE IF Len(opts.index) > 0 /\ hasTrailingSlash(w) THEN sendIndex(w, r.path)
  ELSE sendFile(w, r.path)

\* the result of checkPath for the request path
checked(w) == checkPath(decode(w.ss.path))

\* SendStream.pipe(res), lines 432-513
pipe(w) == pipeChecked(w, checked(w), dotfileStatus(checked(w).parts))

\* serveStatic setting the 405 status before it looks at fallthrough
serveStatic_statusFirst(w) ==
  IF req.method # "GET" /\ req.method # "HEAD"
  THEN LET w1 == res_statusCode(w, 405)
       IN IF opts.fallthrough THEN callNext(w1, 0)
          ELSE res_end(res_setHeader(res_setHeader(w1, Allow, <<"GET, HEAD">>),
                                     ContentLength, <<"0">>), "405", "")
  ELSE LET w0 == getOriginalUrl(parseUrl(w))
           path0 == w0.mnt.parsedUrl.pathname
           original == w0.mnt.parsedOriginalUrl.pathname
           path == IF path0 = <<"/">> /\ original[Len(original)] # "/" THEN <<>> ELSE path0
       IN pipe([w0 EXCEPT !.mnt.forwardError = ~opts.fallthrough, !.ss.path = path])

\* the handler serveStatic returns, part_001 137-194
serveStatic(w) ==
  IF req.method # "GET" /\ req.method # "HEAD"
  THEN IF opts.fallthrough THEN callNext(w, 0)
       ELSE LET w1 == res_statusCode(w, 405)
                w2 == res_setHeader(w1, Allow, <<"GET, HEAD">>)
                w3 == res_setHeader(w2, ContentLength, <<"0">>)
            IN res_end(w3, "405", "")
  ELSE LET w0 == getOriginalUrl(parseUrl(w))
           path0 == w0.mnt.parsedUrl.pathname
           original == w0.mnt.parsedOriginalUrl.pathname
           path == IF path0 = <<"/">> /\ original[Len(original)] # "/" THEN <<>> ELSE path0
       IN pipe([w0 EXCEPT !.mnt.forwardError = ~opts.fallthrough, !.ss.path = path])

----------------------------------------------------------------------------
(* Initial states *)

\* the codes a failed stat or read reports
ErrorCodes == {"ENOENT", "ENOTDIR", "ENAMETOOLONG", "EACCES"}

StatOutcomes ==
  {[kind |-> "file", code |-> ""], [kind |-> "dir", code |-> ""]}
    \cup {[kind |-> "err", code |-> c] : c \in ErrorCodes}

NoReader ==
  [state |-> "none", path |-> <<>>, start |-> 0, end |-> 0, pos |-> 0, read |-> <<>>,
   errored |-> FALSE]

\* a response nothing has been written to, with the status the caller left
NewResponse(status) ==
  [statusCode |-> status, headers |-> NoHeaders, headersSent |-> FALSE,
   finished |-> FALSE, finishEmitted |-> FALSE, socketWritable |-> TRUE,
   closed |-> FALSE,
   sentStatus |-> 0, sentHeaders |-> NoHeaders, doc |-> "", bytes |-> <<>>]

NewSendStream ==
  [pc |-> "new", path |-> <<>>, resolved |-> <<>>, probe |-> "", p |-> <<>>, i |-> 0,
   finished |-> FALSE, queue |-> <<>>, immediates |-> <<>>]

\* the mount's side of a request: forwardError, the calls of next() (0 for
\* a call without an error), and the parses memoized on the request as
\* req._parsedUrl and req._parsedOriginalUrl
NewMount ==
  [forwardError |-> FALSE, nexts |-> <<>>, parsedUrl |-> NoParse,
   parsedOriginalUrl |-> NoParse]

NewLog ==
  [events |-> <<>>, statted |-> <<>>, outcomes |-> <<>>, opened |-> <<>>,
   errors |-> <<>>, responses |-> <<>>, ends |-> 0, thrown |-> FALSE,
   registered |-> <<>>, invoked |-> <<>>]

\* the options a caller passes; a mount always has a root and an error listener
Options(mode, errorListener, fallthrough, redir, rootOpt, dotfiles, index, extensions, acceptRanges, window) ==
  [mode |-> mode, errorListener |-> errorListener, fallthrough |-> fallthrough,
   redirect |-> redir, root |-> rootOpt, dotfiles |-> dotfiles, index |-> index,
   extensions |-> extensions, acceptRanges |-> acceptRanges, cacheControl |-> TRUE,
   etag |-> TRUE, lastModified |-> TRUE, maxage |-> 0, immutable |-> FALSE,
   start |-> window.start, hasEnd |-> window.hasEnd, end |-> window.end,
   setHeaders |-> NoHeaders]

Headers(range, ifRange, ifNoneMatch, ifMatch) ==
  [n \in {"range", "if-range", "if-none-match", "if-match", "if-modified-since",
          "if-unmodified-since"} |->
     CASE n = "range" -> range
       [] n = "if-range" -> ifRange
       [] n = "if-none-match" -> ifNoneMatch
       [] n = "if-match" -> ifMatch
       [] OTHER -> <<>>]

\* the (mode, errorListener, fallthrough, redirect) a caller can configure
Callers ==
  {<<"mount", TRUE, ft, rd>> : ft \in BOOLEAN, rd \in BOOLEAN}
    \cup {<<"direct", el, FALSE, FALSE>> : el \in BOOLEAN}

FullWindow == [start |-> 0, hasEnd |-> FALSE, end |-> 0]

RangeOf(entries) == <<"bytes", "=">> \o entries

\* the file on disk: its size, its mtime (the instant 1) and the outcomes
\* fs.stat can report for the paths probed
File(size, outcomes) == [size |-> size, mtime |-> 1, outcomes |-> outcomes]

\* a tag that is no file's ETag
OtherTag == <<"\"", "x", "\"">>

InitState(o, r, f, status) ==
  /\ opts = o
  /\ req = r
  /\ file = f
  /\ res = NewResponse(status)
  /\ ss = NewSendStream
  /\ reader = NoReader
  /\ mnt = NewMount
  /\ log = NewLog

\* Spec: the life of one request, from every kind of caller
Init ==
  \E c \in Callers,
     method \in {"GET", "HEAD", "POST"},
     u \in {<<<<"/", "a">>, <<"/", "a">>>>,
            <<<<"/", "a", "/">>, <<"/", "m", "/", "a", "/">>>>,
            <<<<"/">>, <<"/", "m">>>>},
     index \in {<<>>, <<<<"i">>, <<"j">>>>},
     extensions \in {<<>>, <<<<"h">>>>},
     h \in {Headers(<<>>, <<>>, <<>>, <<>>),
            Headers(RangeOf(<<"0", "-", "0">>), <<>>, <<>>, <<>>),
            Headers(RangeOf(<<ToString(MaxSize), "-">>), <<>>, <<>>, <<>>),
            Headers(RangeOf(<<"0", "-", "0">>), <<>>, <<"*">>, <<>>),
            Headers(<<>>, <<>>, <<>>, OtherTag)},
     size \in 0..MaxSize,
     status \in {200, 404} :
    InitState(
      Options(c[1], c[2], c[3], c[4], <<"/", "r">>, "ignore", index, extensions, TRUE,
              FullWindow),
      [method |-> method, url |-> u[1], originalUrl |-> u[2], headers |-> h],
      File(size, StatOutcomes),
      status)

\* the tokens of the request paths InitPath enumerates
PathTokens == {"/", ".", "a", "%2e", "%00"}

\* every sequence of at most n tokens
PathsUpTo(n) == UNION {[1..k -> PathTokens] : k \in 0..n}

\* SpecPath: send(req, path, options).pipe(res) for every path of at most
\* MaxPathLen tokens, with and without a root (one root is itself a dot
\* directory), under every dotfiles setting ("undefined": option omitted);
\* a stat finds a file, a directory or nothing
InitPath ==
  \E path \in PathsUpTo(MaxPathLen),
     rootOpt \in {<<>>, <<"/", "r">>, <<"/", ".", "r">>},
     dotfiles \in {"allow", "deny", "ignore", "undefined"} :
    InitState(
      Options("direct", FALSE, FALSE, FALSE, rootOpt, dotfiles, <<<<"i">>>>, <<<<"h">>>>,
              TRUE, FullWindow),
      [method |-> "GET", url |-> path, originalUrl |-> path,
       headers |-> Headers(<<>>, <<>>, <<>>, <<>>)],
      File(1, {o \in StatOutcomes : o.code \in {"", "ENOENT"}}),
      200)

\* one entry of a Range header: a-b, a- or -b
ClosedEntries == {<<ToString(a), "-", ToString(b)>> : a, b \in 0..MaxPos}

OpenEntries ==
  {<<ToString(a), "-">> : a \in 0..MaxPos} \cup {<<"-", ToString(b)>> : b \in 0..MaxPos}

\* the Range headers of InitServe: none, another unit, one entry, or two
\* closed entries
RangeHeaders ==
  {<<>>, <<"items", "=", "0", "-", "0">>}
    \cup {RangeOf(e) : e \in ClosedEntries \cup OpenEntries}
    \cup {RangeOf(e1 \o <<",">> \o e2) : e1, e2 \in ClosedEntries}

\* the conditions a request of InitServe adds to its Range, for a file of
\* `size`: <<acceptRanges, If-Range, If-None-Match, If-Match>>
Conditions(size) ==
  {<<TRUE, <<>>, <<>>, <<>>>>,
   <<FALSE, <<>>, <<>>, <<>>>>,
   <<TRUE, etag(File(size, {})), <<>>, <<>>>>,
   <<TRUE, OtherTag, <<>>, <<>>>>,
   <<TRUE, toUTCString(1), <<>>, <<>>>>,
   <<TRUE, toUTCString(0), <<>>, <<>>>>,
   <<TRUE, <<>>, <<"*">>, <<>>>>,
   <<TRUE, <<>>, <<>>, OtherTag>>}

\* the start / end options of InitServe
Windows == {FullWindow, [start |-> 1, hasEnd |-> TRUE, end |-> 2]}

\* SpecServe: send(req, path, options).pipe(res) without an error listener
\* for a file that is there, under every Range header of RangeHeaders
InitServe ==
  \E range \in RangeHeaders, size \in 0..MaxSize, window \in Windows,
     method \in {"GET", "HEAD"} :
   \E c \in Conditions(size) :
    InitState(
      Options("direct", FALSE, FALSE, FALSE, <<"/", "r">>, "ignore", <<>>, <<>>, c[1],
              window),
      [method |-> method, url |-> <<"/", "a">>, originalUrl |-> <<"/", "a">>,
       headers |-> Headers(range, c[2], c[3], c[4])],
      File(size, {[kind |-> "file", code |-> ""]}),
      200)

\* the strong form of the file's (weak) ETag
StrongTag(size) == Tail(etag(File(size, {})))

\* the conditional headers of InitCond, for a file of `size`:
\* <<Range, If-Range, If-None-Match, If-Match, If-Modified-Since,
\*   If-Unmodified-Since>>, in four families: preconditions, freshness,
\* Range with If-Range, and Range with If-None-Match and If-Match
CondHeaders(size) ==
  LET tag == etag(File(size, {}))
      unsat == RangeOf(<<ToString(MaxSize), "-">>)
      one == RangeOf(<<"0", "-", "0">>)
  IN {<<<<>>, <<>>, inm, im, <<>>, ius>> :
        inm \in {<<>>, <<"*">>},
        im \in {<<>>, <<"*">>, OtherTag, tag, StrongTag(size), <<"W/">> \o tag,
                OtherTag \o <<",", " ">> \o tag},
        ius \in {<<>>, toUTCString(0), toUTCString(1), <<"x">>}}
     \cup {<<<<>>, <<>>, inm, im, ims, <<>>>> :
        inm \in {<<>>, <<"*">>, tag, OtherTag},
        im \in {<<>>, <<"*">>},
        ims \in {<<>>, toUTCString(0), toUTCString(1)}}
     \cup {<<range, ifRange, inm, <<>>, <<>>, <<>>>> :
        range \in {one, unsat},
        ifRange \in {<<>>, tag, OtherTag, <<"\"", "undefined", "\"">>,
                     toUTCString(0), toUTCString(1)},
        inm \in {<<>>, OtherTag}}
     \cup {<<range, <<>>, inm, im, <<>>, <<>>>> :
        range \in {one, unsat},
        inm \in {<<"*">>, tag},
        im \in {<<>>, <<"*">>, OtherTag}}

\* what a `headers` listener of InitCond sets
HookHeaders ==
  {NoHeaders,
   [n \in {ContentLocation, <<"content-", "language">>} |->
      IF n = ContentLocation THEN <<"/", "a">> ELSE <<"en">>]}

\* SpecCond: send(req, path, options).pipe(res) for a file that is there,
\* under the conditional headers of CondHeaders, with and without the etag
\* and lastModified options, an error listener and a `headers` listener, and
\* with the status the caller left on the response
InitCond ==
  \E size \in 1..MaxSize, method \in {"GET", "HEAD"}, el \in BOOLEAN,
     etagOpt \in BOOLEAN, lastModifiedOpt \in BOOLEAN, status \in {200, 404},
     hook \in HookHeaders :
   \E c \in CondHeaders(size) :
    InitState(
      [Options("direct", el, FALSE, FALSE, <<"/", "r">>, "ignore", <<>>, <<>>, TRUE,
               FullWindow)
         EXCEPT !.etag = etagOpt, !.lastModified = lastModifiedOpt, !.setHeaders = hook],
      [method |-> method, url |-> <<"/", "a", ".", "h">>,
       originalUrl |-> <<"/", "a", ".", "h">>,
       headers |-> [Headers(c[1], c[2], c[3], c[4])
                      EXCEPT !["if-modified-since"] = c[5],
                             !["if-unmodified-since"] = c[6]]],
      File(size, {[kind |-> "file", code |-> ""]}),
      status)

\* SpecWindow: a GET or HEAD of a file of every size under every start and
\* end option (also end < start and start past the end of the file)
InitWindow ==
  \E size \in 0..MaxSize, start \in 0..MaxPos, hasEnd \in BOOLEAN, end \in 0..MaxPos,
     method \in {"GET", "HEAD"}, el \in BOOLEAN,
     range \in {<<>>, RangeOf(<<"0", "-", "0">>), RangeOf(<<"1", "-">>)} :
    /\ (~hasEnd => end = 0)
    /\ InitState(
         Options("direct", el, FALSE, FALSE, <<"/", "r">>, "ignore", <<>>, <<>>, TRUE,
                 [start |-> start, hasEnd |-> hasEnd, end |-> end]),
         [method |-> method, url |-> <<"/", "a">>, originalUrl |-> <<"/", "a">>,
          headers |-> Headers(range, <<>>, <<>>, <<>>)],
         File(size, {[kind |-> "file", code |-> ""]}),
         200)

\* SpecProbe: a GET of a path with and without an extension and a trailing
\* slash, from every kind of caller, with no, one or two index names and no,
\* one or two extensions; each fs.stat finds a file, a directory or fails
\* with one of ErrorCodes
InitProbe ==
  \E c \in Callers,
     u \in {<<<<"/", "a">>, <<"/", "a">>>>,
            <<<<"/", "a", ".", "h">>, <<"/", "a", ".", "h">>>>,
            <<<<"/", "a", "/">>, <<"/", "m", "/", "a", "/">>>>},
     index \in {<<>>, <<<<"i">>>>, <<<<"i">>, <<"j">>>>},
     extensions \in {<<>>, <<<<"h">>>>, <<<<"h">>, <<"k">>>>} :
    InitState(
      Options(c[1], c[2], c[3], c[4], <<"/", "r">>, "ignore", index, extensions, TRUE,
              FullWindow),
      [method |-> "GET", url |-> u[1], originalUrl |-> u[2],
       headers |-> Headers(<<>>, <<>>, <<>>, <<>>)],
      File(1, StatOutcomes),
      200)

\* the requests of InitMount, <<req.url, req.originalUrl>>: a path under the
\* mount point /m with and without a trailing slash and a query, the mount
\* point itself with and without its slash, a path with two leading slashes
\* under a mount at the root, and two paths pipe() refuses (403, 400)
MountUrls ==
  {<<<<"/", "a">>, <<"/", "m", "/", "a">>>>,
   <<<<"/", "a", "/">>, <<"/", "m", "/", "a", "/">>>>,
   <<<<"/", "a", "?", "q">>, <<"/", "m", "/", "a", "?", "q">>>>,
   <<<<"/">>, <<"/", "m">>>>,
   <<<<"/">>, <<"/", "m", "/">>>>,
   <<<<"/", "/", "a">>, <<"/", "/", "a">>>>,
   <<<<"/", ".", ".">>, <<"/", "m", "/", ".", ".">>>>,
   <<<<"/", "%00">>, <<"/", "m", "/", "%00">>>>}

\* the status code the caller left on the response before the mount
EntryStatuses == {200, 404}

\* SpecMount: the mount's handler with and without fallthrough and redirect
\* for the requests of MountUrls, also with a method it does not serve,
\* without conditions, with a failing If-Match and with a Range past the
\* end of the file; each fs.stat finds a file, a directory, nothing, or
\* fails with EACCES
InitMount ==
  \E ft \in BOOLEAN, rd \in BOOLEAN, method \in {"GET", "HEAD", "POST"}, u \in MountUrls,
     index \in {<<>>, <<<<"i">>>>}, status \in EntryStatuses,
     h \in {Headers(<<>>, <<>>, <<>>, <<>>),
            Headers(<<>>, <<>>, <<>>, OtherTag),
            Headers(RangeOf(<<ToString(MaxSize), "-">>), <<>>, <<>>, <<>>)} :
    InitState(
      Options("mount", TRUE, ft, rd, <<"/", "r">>, "ignore", index, <<>>, TRUE, FullWindow),
      [method |-> method, url |-> u[1], originalUrl |-> u[2], headers |-> h],
      File(1, {o \in StatOutcomes : o.code \in {"", "ENOENT", "EACCES"}}),
      status)

\* the entries of the Range headers of InitParse: a-b, a-, -b and the bare
\* dash, over one position more than the entries of InitServe
ParseClosed == {<<ToString(a), "-", ToString(b)>> : a, b \in 0..(MaxPos + 1)}

ParseOpen ==
  {<<ToString(a), "-">> : a \in 0..(MaxPos + 1)}
    \cup {<<"-", ToString(b)>> : b \in 0..(MaxPos + 1)}
    \cup {<<"-">>}

\* the Range headers of n entries: any entries up to two, closed ones for three
ParseHeaders(n) ==
  CASE n = 1 -> {RangeOf(e) : e \in ParseClosed \cup ParseOpen}
    [] n = 2 -> {RangeOf(e1 \o <<",">> \o e2) : e1, e2 \in ParseClosed \cup ParseOpen}
    [] OTHER -> {RangeOf(e1 \o <<",">> \o e2 \o <<",">> \o e3) : e1, e2, e3 \in ParseClosed}

\* SpecParse: rangeParser(size, header, {combine: true}) as send() calls it,
\* for every size up to MaxSize + 1 and every header of one, two or three
\* entries; a header of several entries comes with a HEAD
InitParse ==
  \E size \in 0..(MaxSize + 1), n \in 1..3, method \in {"GET", "HEAD"} :
   \E range \in ParseHeaders(n) :
    /\ method = "GET" => n = 1
    /\ InitState(
         Options("direct", FALSE, FALSE, FALSE, <<"/", "r">>, "ignore", <<>>, <<>>, TRUE,
                 FullWindow),
         [method |-> method, url |-> <<"/", "a">>, originalUrl |-> <<"/", "a">>,
          headers |-> Headers(range, <<>>, <<>>, <<>>)],
         File(size, {[kind |-> "file", code |-> ""]}),
         200)

\* the maxAge values of InitCache, in milliseconds, as the constructor
\* leaves them in _maxage
MaxAges == {0, 999, 1000, 2500}

\* SpecCache: a GET or HEAD of a file from every kind of caller, with the
\* cacheControl and immutable options on and off, under each maxAge of
\* MaxAges, with and without a `headers` listener that sets Cache-Control
InitCache ==
  \E c \in Callers, method \in {"GET", "HEAD"}, cacheControl \in BOOLEAN,
     maxage \in MaxAges, immutable \in BOOLEAN,
     hook \in {NoHeaders, [n \in {CacheControl} |-> <<"no-store">>]} :
    InitState(
      [Options(c[1], c[2], c[3], c[4], <<"/", "r">>, "ignore", <<>>, <<>>, TRUE, FullWindow)
         EXCEPT !.cacheControl = cacheControl, !.maxage = maxage,
                !.immutable = immutable, !.setHeaders = hook],
      [method |-> method, url |-> <<"/", "a">>, originalUrl |-> <<"/", "a">>,
       headers |-> Headers(<<>>, <<>>, <<>>, <<>>)],
      File(1, {[kind |-> "file", code |-> ""]}),
      200)

\* a response whose caller has written the status line and `headers`
\* before handing the request over (res.writeHead, res.flushHeaders)
SentResponse(headers) ==
  [NewResponse(200) EXCEPT !.headers = headers, !.headersSent = TRUE,
                           !.sentStatus = 200, !.sentHeaders = headers]

\* SpecSent: a GET or HEAD from every kind of caller on a response that is
\* new or has its headers sent already, with no header or with one; the
\* stat finds a file, a directory or nothing
InitSent ==
  \E c \in Callers, method \in {"GET", "HEAD"}, sent \in BOOLEAN,
     headers \in {NoHeaders, [n \in {<<"x-", "served-", "by">>} |-> <<"a">>]} :
    /\ opts = Options(c[1], c[2], c[3], c[4], <<"/", "r">>, "ignore", <<>>, <<>>, TRUE,
                      FullWindow)
    /\ req = [method |-> method, url |-> <<"/", "a">>, originalUrl |-> <<"/", "a">>,
              headers |-> Headers(<<>>, <<>>, <<>>, <<>>)]
    /\ file = File(1, {o \in StatOutcomes : o.code \in {"", "ENOENT"}})
    /\ res = IF sent THEN SentResponse(headers)
             ELSE [NewResponse(200) EXCEPT !.headers = headers]
    /\ ss = NewSendStream
    /\ reader = NoReader
    /\ mnt = NewMount
    /\ log = NewLog

\* a second tag that is no file's ETag
CallerTag == <<"\"", "y", "\"">>

\* what the `headers` listener of InitBase sets: nothing, every base header,
\* the ETag alone, or an empty Cache-Control and Accept-Ranges
BaseHooks ==
  {NoHeaders,
   [n \in {AcceptRanges, CacheControl, LastModified, ETag, ContentType} |->
      CASE n = AcceptRanges -> <<"none">>
        [] n = CacheControl -> <<"no-store">>
        [] n = LastModified -> toUTCString(2)
        [] n = ETag -> OtherTag
        [] OTHER -> <<"text/plain">>],
   [n \in {ETag} |-> OtherTag],
   [n \in {AcceptRanges, CacheControl} |-> <<>>]}

\* what the caller of InitBase has set on the response before send()
CallerHeaders ==
  {NoHeaders,
   [n \in {CacheControl, ETag, ContentType} |->
      CASE n = CacheControl -> <<"private">>
        [] n = ETag -> CallerTag
        [] OTHER -> <<"x/y">>],
   [n \in {LastModified} |-> toUTCString(0)]}

\* the conditional headers of InitBase, as in CondHeaders: each validator
\* compared with the file's, the listener's and the caller's value
BaseConds(size) ==
  LET tag == etag(File(size, {}))
      one == RangeOf(<<"0", "-", "0">>)
  IN {<<<<>>, <<>>, inm, <<>>, <<>>, <<>>>> : inm \in {<<>>, tag, OtherTag, CallerTag}}
     \cup {<<<<>>, <<>>, <<>>, im, <<>>, <<>>>> : im \in {tag, OtherTag, CallerTag}}
     \cup {<<<<>>, <<>>, <<>>, <<>>, ims, <<>>>> : ims \in {toUTCString(0), toUTCString(1)}}
     \cup {<<<<>>, <<>>, <<>>, <<>>, <<>>, ius>> : ius \in {toUTCString(0), toUTCString(1)}}
     \cup {<<one, ifRange, <<>>, <<>>, <<>>, <<>>>> :
              ifRange \in {tag, OtherTag, CallerTag, <<"\"", "undefined", "\"">>,
                           toUTCString(0), toUTCString(1)}}

\* SpecBase: send(req, path, options).pipe(res) for a file that is there,
\* with each of the acceptRanges, cacheControl, lastModified and etag
\* options on and off, on a response the caller and the `headers` listener
\* may have given base headers of their own
InitBase ==
  \E size \in 1..2, method \in {"GET", "HEAD"}, el \in BOOLEAN,
     acceptRangesOpt \in BOOLEAN, cacheControlOpt \in BOOLEAN,
     etagOpt \in BOOLEAN, lastModifiedOpt \in BOOLEAN,
     hook \in BaseHooks, caller \in CallerHeaders :
   \E c \in BaseConds(size) :
    /\ opts = [Options("direct", el, FALSE, FALSE, <<"/", "r">>, "ignore", <<>>, <<>>,
                       acceptRangesOpt, FullWindow)
                 EXCEPT !.cacheControl = cacheControlOpt, !.etag = etagOpt,
                        !.lastModified = lastModifiedOpt, !.setHeaders = hook]
    /\ req = [method |-> method, url |-> <<"/", "a", ".", "h">>,
              originalUrl |-> <<"/", "a", ".", "h">>,
              headers |-> [Headers(c[1], c[2], c[3], c[4])
                             EXCEPT !["if-modified-since"] = c[5],
                                    !["if-unmodified-since"] = c[6]]]
    /\ file = File(size, {[kind |-> "file", code |-> ""]})
    /\ res = [NewResponse(200) EXCEPT !.headers = caller]
    /\ ss = NewSendStream
    /\ reader = NoReader
    /\ mnt = NewMount
    /\ log = NewLog

\* the values req.url and req.originalUrl take in SpecUrl
UrlValues == {<<"/", "a">>, <<"/", "b">>}

OriginalUrlValues == {<<"/", "m", "/", "a">>, <<"/", "m", "/", "a", "?", "q">>}

\* SpecUrl: one request object over its life: the mount's handler serves
\* it once (a file, a directory, or nothing found), and at any time other
\* middleware calls parseUrl(req) and getOriginalUrl(req) and rewrites
\* req.url and req.originalUrl
InitUrl ==
  \E ft \in BOOLEAN, rd \in BOOLEAN, url \in UrlValues, originalUrl \in OriginalUrlValues :
    InitState(
      Options("mount", TRUE, ft, rd, <<"/", "r">>, "ignore", <<>>, <<>>, TRUE, FullWindow),
      [method |-> "GET", url |-> url, originalUrl |-> originalUrl,
       headers |-> Headers(<<>>, <<>>, <<>>, <<>>)],
      File(1, {o \in StatOutcomes : o.code \in {"", "ENOENT"}}),
      200)

\* the listeners other code registers with onFinished(res, fn) in SpecFinished
OtherListeners == {"x", "y"}

\* SpecFinished: a GET or HEAD from a caller with an error listener, of a
\* file that is there or not, while other code registers its own listeners
\* on the response with onFinished at any time and the socket closes also
\* after the response has finished or the socket has failed
InitFinished ==
  \E c \in {k \in Callers : k[2] /\ ~k[3]}, method \in {"GET", "HEAD"} :
    InitState(
      Options(c[1], c[2], c[3], c[4], <<"/", "r">>, "ignore", <<>>, <<>>, TRUE, FullWindow),
      [method |-> method, url |-> <<"/", "a">>, originalUrl |-> <<"/", "a">>,
       headers |-> Headers(<<>>, <<>>, <<>>, <<>>)],
      File(1, {o \in StatOutcomes : o.code \in {"", "ENOENT"}}),
      200)

----------------------------------------------------------------------------
(* Actions *)

\* the caller hands the request over: the mount's handler runs, or
\* send(req, path, options).pipe(res), up to the first fs.stat
Request ==
  /\ ss.pc = "new"
  /\ LET w == [World EXCEPT !.ss.pc = "done", !.ss.path = req.url]
     IN Commit(IF opts.mode = "mount" THEN serveStatic(w) ELSE pipe(w))
  /\ UNCHANGED <<req, opts, file>>

\* fs.stat calls back with one of its outcomes; log.outcomes keeps the
\* outcome of each path of log.statted
StatCallback ==
  /\ ss.pc = "stat"
  /\ ~log.thrown
  /\ \E o \in file.outcomes :
       Commit(statCallback([World EXCEPT !.ss.pc = "done",
                                         !.log.outcomes = Append(@, o)], o))
  /\ UNCHANGED <<req, opts, file>>

\* a call of a listener of onFinished: the SendStream's own ("send") is
\* the function of send.ts 721-724, any other only counts; log.invoked
\* keeps the calls in order
invoke(w, l) ==
  IF l = "send" THEN onResFinished([w EXCEPT !.log.invoked = Append(@, l)])
  ELSE [w EXCEPT !.log.invoked = Append(@, l)]

\* the listener l waits in a setImmediate
Deferred(l) == \E k \in 1..Len(ss.immediates) : ss.immediates[k] = l

\* the oldest setImmediate of onFinished runs; that of the SendStream runs
\* before any further I/O event
RunImmediate ==
  /\ ss.immediates # <<>>
  /\ ~log.thrown
  /\ Commit(invoke([World EXCEPT !.ss.immediates = Tail(@)], Head(ss.immediates)))
  /\ UNCHANGED <<req, opts, file>>

\* the position after the last byte the reader can deliver
readerLimit == Min(reader.end, file.size - 1)

\* the reader delivers the next byte and pipe() writes it to the response;
\* pipe() unpipes at the `close` of the response, and a reader nothing is
\* piped from any more delivers nothing
ReaderData ==
  /\ reader.state = "open"
  /\ res.socketWritable
  /\ ~Deferred("send")
  /\ ~log.thrown
  /\ reader.pos <= readerLimit
  /\ reader' = [reader EXCEPT !.pos = @ + 1, !.read = Append(@, reader.pos)]
  /\ res' = [flushHeaders(res) EXCEPT !.bytes = Append(@, reader.pos)]
  /\ log' = IF res.headersSent THEN log ELSE [log EXCEPT !.responses = Append(@, "body")]
  /\ UNCHANGED <<req, opts, file, ss, mnt>>

\* the reader has delivered its window: pipe() ends the response and the
\* `end` listener of lines 740-742 runs
ReaderEnd ==
  /\ reader.state = "open"
  /\ res.socketWritable
  /\ ~Deferred("send")
  /\ ~log.thrown
  /\ reader.pos > readerLimit
  /\ LET w0 == [World EXCEPT !.reader.state = "ended"]
         w1 == IF w0.res.headersSent THEN [w0 EXCEPT !.log.ends = @ + 1,
                                                     !.res.finished = TRUE]
               ELSE res_end(w0, "body", "")
     IN Commit(emit(w1, "end"))
  /\ UNCHANGED <<req, opts, file>>

\* the reader fails (open or read), at most once
ReaderError ==
  /\ reader.state \in {"open", "destroyed"}
  /\ ~reader.errored
  /\ ~Deferred("send")
  /\ ~log.thrown
  /\ \E code \in {"ENOENT", "EACCES"} :
       Commit(onReaderError([World EXCEPT !.reader.errored = TRUE], code))
  /\ UNCHANGED <<req, opts, file>>

\* the calls `queue[i](err, msg)` of lines 145-147, in the order of the queue
RECURSIVE runQueue(_, _)
runQueue(w, queue) ==
  IF queue = <<>> THEN w ELSE runQueue(invoke(w, Head(queue)), Tail(queue))

\* fireFinished leaving the listeners queued and hooked to the events
fireFinished_keepQueue(w) == runQueue(w, w.ss.queue)

\* what on-finished does at the first of finish / close / error, lines 68-74
\* and 138-148: unhook from the events (ee-first 44-56), empty the queue
\* and call each listener that was in it
fireFinished(w) == runQueue([w EXCEPT !.ss.queue = <<>>], w.ss.queue)

\* the response emits `finish` after end()
ResFinish ==
  /\ res.finished
  /\ ~res.finishEmitted
  /\ res.socketWritable
  /\ ~log.thrown
  /\ Commit(fireFinished([World EXCEPT !.res.finishEmitted = TRUE]))
  /\ UNCHANGED <<req, opts, file>>

\* the socket closes or fails before the response has finished
SocketClose ==
  /\ ss.pc \in {"stat", "streaming"}
  /\ res.socketWritable
  /\ ~res.finishEmitted
  /\ ~log.thrown
  /\ Commit(fireFinished([World EXCEPT !.res.socketWritable = FALSE]))
  /\ UNCHANGED <<req, opts, file>>

Next ==
  \/ Request
  \/ StatCallback
  \/ RunImmediate
  \/ ReaderData
  \/ ReaderEnd
  \/ ReaderError
  \/ ResFinish
  \/ SocketClose

\* some middleware calls parseUrl(req)
ParseUrlCall ==
  /\ Commit(parseUrl(World))
  /\ UNCHANGED <<req, opts, file>>

\* some middleware calls getOriginalUrl(req)
GetOriginalUrlCall ==
  /\ Commit(getOriginalUrl(World))
  /\ UNCHANGED <<req, opts, file>>

\* some middleware rewrites req.url
SetUrl ==
  /\ \E u \in UrlValues \ {req.url} : req' = [req EXCEPT !.url = u]
  /\ UNCHANGED <<opts, file, res, ss, reader, mnt, log>>

\* some middleware rewrites req.originalUrl
SetOriginalUrl ==
  /\ \E u \in OriginalUrlValues \ {req.originalUrl} : req' = [req EXCEPT !.originalUrl = u]
  /\ UNCHANGED <<opts, file, res, ss, reader, mnt, log>>

\* the steps of SpecUrl: those of a request, and the calls and rewrites of
\* the other middleware
NextUrl ==
  \/ Next
  \/ ParseUrlCall
  \/ GetOriginalUrlCall
  \/ SetUrl
  \/ SetOriginalUrl

\* other code calls onFinished(res, fn) with a listener of its own
RegisterListener ==
  /\ ~log.thrown
  /\ \E l \in OtherListeners :
       /\ \A k \in 1..Len(log.registered) : log.registered[k].l # l
       /\ Commit(onFinished(World, l))
  /\ UNCHANGED <<req, opts, file>>

\* the socket emits `close` after the `finish` of the response or after its
\* own `error`
SocketCloseLate ==
  /\ ~res.closed
  /\ res.finishEmitted \/ ~res.socketWritable
  /\ ~log.thrown
  /\ Commit(fireFinished([World EXCEPT !.res.closed = TRUE,
                                       !.res.socketWritable = FALSE]))
  /\ UNCHANGED <<req, opts, file>>

\* the steps of SpecFinished: those of a request, the registrations of the
\* other code and the late close of the socket
NextFinished ==
  \/ Next
  \/ RegisterListener
  \/ SocketCloseLate

Spec == Init /\ [][Next]_vars

SpecPath == InitPath /\ [][Next]_vars

SpecServe == InitServe /\ [][Next]_vars

SpecCond == InitCond /\ [][Next]_vars

SpecWindow == InitWindow /\ [][Next]_vars

\* SpecRelease: SpecWindow under the scheduling of the event loop once a
\* reader is open: a setImmediate runs, a reader piped into a writable
\* response delivers its next chunk or its end, and an ended response emits
\* `finish`; a failure of the reader and the close of the socket may or may
\* not happen
Fairness ==
  /\ WF_vars(RunImmediate)
  /\ WF_vars(ReaderData)
  /\ WF_vars(ReaderEnd)
  /\ WF_vars(ResFinish)

SpecProbe == InitProbe /\ [][Next]_vars

SpecMount == InitMount /\ [][Next]_vars

SpecParse == InitParse /\ [][Next]_vars

SpecCache == InitCache /\ [][Next]_vars

SpecSent == InitSent /\ [][Next]_vars

SpecBase == InitBase /\ [][Next]_vars

SpecUrl == InitUrl /\ [][NextUrl]_vars

\* the event loop runs every setImmediate callback
SpecFinished == InitFinished /\ [][NextFinished]_vars /\ WF_vars(RunImmediate)

SpecRelease == InitWindow /\ [][Next]_vars /\ Fairness

----------------------------------------------------------------------------
(* The mount: one response or one next *)

\* the responses the mount's handler writes itself
HandlerResponses == {"405", "redirect", "notModified", "head", "body"}

----------------------------------------------------------------------------
(* A SendStream without an error listener *)

\* a pipe() run nobody observes the errors of
Unobserved == opts.mode = "direct" /\ ~opts.errorListener

\* C2: in a pipe() run of a SendStream without an error listener, at most
\* one of error page, 301, 304 and 200/206 body is written to the response,
\* a document and file bytes are never both written, and the response is
\* ended at most once; a second write is not even attempted (no header call
\* throws) unless a read fails after the headers went on the wire.
C2_AtMostOneResponse ==
  Unobserved =>
    /\ Len(log.responses) <= 1
    /\ log.ends <= 1
    /\ ~(res.doc # "" /\ res.bytes # <<>>)
    /\ (log.thrown => (reader.errored /\ res.headersSent /\ log.responses = <<"body">>))

\* the read fails before the first byte: the error page is the one response
C2_Witness ==
  /\ Unobserved
  /\ reader.errored
  /\ log.responses = <<"error">>
  /\ res.finished

----------------------------------------------------------------------------
(* Request paths: traversal and dotfiles (SpecPath) *)

\* pipe() has run
Started == ss.pc # "new"

\* the decoded request path, when the path decodes
Decodes == ~decode(req.url).fail

Decoded == decode(req.url).s

HasNul(s) == \E i \in 1..Len(s) : s[i] = "NUL"

\* the components of a path
Components(s) ==
  LET parts == Split(s, sep)
  IN {parts[i] : i \in 1..Len(parts)}

\* the request was refused with `status` before any call of the file system
Refused(status) ==
  /\ log.errors = <<status>>
  /\ res.sentStatus = status
  /\ log.statted = <<>>
  /\ log.opened = <<>>

\* p is resolve(root) or a lexical descendant of it
UnderRoot(p) ==
  p = resolve(opts.root) \/ IsPrefix(resolve(opts.root) \o <<sep>>, p)

AllUnderRoot ==
  /\ \A k \in 1..Len(log.statted) : UnderRoot(log.statted[k])
  /\ \A k \in 1..Len(log.opened) : UnderRoot(log.opened[k])

\* the normalized relative form of a decoded path starts with `..`
LeavesRoot(d) ==
  d # <<>> /\ Split(normalize(<<".", sep>> \o d), sep)[1] = DotDot

\* C3: with a root, every path stat'ed or opened (the path, each index
\* candidate, each extension candidate) is resolve(root) or below it, and
\* every decoded path (without a NUL byte, which is refused with 400 before
\* anything else) whose normalized relative form starts with `..` is refused
\* with 403 before any call of the file system.
C3_UnderRoot ==
  (opts.root # <<>> /\ Started) =>
    /\ AllUnderRoot
    /\ ((Decodes /\ LeavesRoot(Decoded) /\ ~HasNul(Decoded)) => Refused(403))

\* C4 as stated: without a root, every decoded path with a `..` component
\* is refused with 403 and nothing is stat'ed.
C4_DotDotIs403 ==
  (opts.root = <<>> /\ Started /\ Decodes /\ DotDot \in Components(Decoded)) =>
    Refused(403)

\* C4 as amended: without a root, every decoded path with a `..` component
\* and no NUL byte is refused with 403, and one with a NUL byte with 400;
\* nothing is stat'ed in either case.
C4_DotDotRefused ==
  (opts.root = <<>> /\ Started /\ Decodes /\ DotDot \in Components(Decoded)) =>
    IF HasNul(Decoded) THEN Refused(400) ELSE Refused(403)

\* a path that normalizes to a location without `..` is refused all the same
C4_Witness ==
  /\ opts.root = <<>>
  /\ Decodes
  /\ DotDot \in Components(Decoded)
  /\ DotDot \notin Components(normalize(Decoded))
  /\ Refused(403)

\* a component of length > 1 that starts with "."
IsDotfile(c) == Len(c) > 1 /\ c[1] = "."

\* pipe() refuses the decoded path d before it looks for dotfiles: a NUL
\* byte, or `..` (leaving the root, or anywhere when there is no root)
RefusedEarly(d) ==
  \/ HasNul(d)
  \/ IF opts.root # <<>> THEN LeavesRoot(d) ELSE DotDot \in Components(d)

\* the path whose components the dotfile policy looks at
NormalForm(d) ==
  IF opts.root = <<>> THEN normalize(d)
  ELSE IF d # <<>> THEN normalize(<<".", sep>> \o d) ELSE d

\* the outcome the dotfiles option fixes for a path with a dotfile
DotfileOutcome ==
  CASE opts.dotfiles = "allow" -> log.statted # <<>>
    [] opts.dotfiles = "deny" -> Refused(403)
    [] opts.dotfiles = "ignore" -> Refused(404)
    [] OTHER -> TRUE

\* C5 as stated (for the paths pipe() does not refuse for a NUL byte or as
\* a traversal): when a component of the decoded request path other than
\* `..` is a dotfile, allow continues to the stat, deny refuses with 403 and
\* ignore with 404.
C5_DecodedDotfile ==
  (Started /\ Decodes /\ ~RefusedEarly(Decoded)
     /\ \E c \in Components(Decoded) : IsDotfile(c) /\ c # DotDot) =>
    DotfileOutcome

\* C5 as amended: for a decoded path pipe() does not refuse for a NUL byte
\* or as a traversal, when a component of the normalized path (relative to
\* the root when there is one; the components of root are not looked at) is
\* a dotfile, allow continues to the stat, deny refuses with 403 and ignore
\* with 404, both before any stat; when no component of the normalized path
\* is a dotfile the request continues to the stat whatever the option is.
C5_NormalizedDotfile ==
  (Started /\ Decodes /\ ~RefusedEarly(Decoded)) =>
    IF \E c \in Components(NormalForm(Decoded)) : IsDotfile(c)
    THEN DotfileOutcome
    ELSE log.statted # <<>>

\* deny refuses a dotfile below a root that is itself a dot directory
C5_Witness ==
  /\ opts.root = <<"/", ".", "r">>
  /\ opts.dotfiles = "deny"
  /\ Decodes /\ ~RefusedEarly(Decoded)
  /\ \E c \in Components(NormalForm(Decoded)) : IsDotfile(c)
  /\ Refused(403)

\* C6: with the dotfiles option omitted, a request for a file that is no
\* dotfile inside a directory that is one (/.a/a) continues to the stat.
C6_LegacyAllowsInsideDotDirectory ==
  (Started /\ opts.dotfiles = "undefined" /\ Decodes /\ ~RefusedEarly(Decoded)
     /\ Len(Split(NormalForm(Decoded), sep)) >= 2
     /\ LET parts == Split(NormalForm(Decoded), sep)
        IN /\ \E k \in 1..(Len(parts) - 1) : IsDotfile(parts[k])
           /\ ~IsDotfile(parts[Len(parts)])
           /\ parts[Len(parts)] # <<>>) =>
    log.statted # <<>>

----------------------------------------------------------------------------
(* Range requests *)

\* C7: every response that is written (error page, redirect, 304, HEAD
\* reply, 200/206 body) carries a Content-Range header if and only if its
\* status is 206 or 416.
C7_ContentRangeIff ==
  res.headersSent => (ContentRange \in DOMAIN res.sentHeaders <=> res.sentStatus \in {206, 416})

\* a 416 went out with its Content-Range and no other header of the file
C7_Witness ==
  /\ res.headersSent
  /\ res.sentStatus = 416
  /\ ContentRange \in DOMAIN res.sentHeaders
  /\ ETag \notin DOMAIN res.sentHeaders

\* send() has been called for the file
Sent == \E k \in 1..Len(log.events) : log.events[k] = "file"

\* the Range header and what it parses to against the window of the file
RangeHeader == getHeader(req.headers, "range")

WindowLen == windowLen(file.size)

Parsed == rangeParser(WindowLen, RangeHeader, TRUE)

\* If-Range is absent, or is the file's ETag, or a date not before its mtime
IfRangeFresh ==
  LET ifRange == getHeader(req.headers, "if-range")
  IN \/ ifRange = <<>>
     \/ ifRange = etag(file)
     \/ \E t \in 0..NumeralMax : ifRange = toUTCString(t) /\ file.mtime <= t

\* the Range header is a bytes range that yields exactly one range
OneRange ==
  /\ BYTES_RANGE_REGEXP_test(RangeHeader)
  /\ Parsed.kind = "ranges"
  /\ Len(Parsed.ranges) = 1
  /\ IfRangeFresh

\* the Range header is a bytes range with no satisfiable range
NoSatisfiableRange ==
  /\ BYTES_RANGE_REGEXP_test(RangeHeader)
  /\ Parsed.kind = RangeUnsatisfiable
  /\ IfRangeFresh

\* the conditional-GET support has answered the request with 412 or 304
Preempted == log.errors = <<412>> \/ log.responses = <<"notModified">>

\* the positions first..last
Positions(first, last) == [k \in 1..(last - first + 1) |-> first + k - 1]

\* the response headers say `bytes s-e/len` and e-s+1 bytes
RangeHeadersAre(h, r, len) ==
  /\ getHeader(h, ContentRange) =
       <<"bytes", " ", ToString(r.start), "-", ToString(r.end), "/", ToString(len)>>
  /\ getHeader(h, ContentLength) = <<ToString(r.end - r.start + 1)>>

\* C8 as stated: with acceptRanges, a bytes Range that yields exactly one
\* range [s, e] against the window length len, and a fresh If-Range, the
\* status is 206, Content-Range is `bytes s-e/len`, Content-Length is e-s+1,
\* and the response ends with exactly the positions start+s..start+e read.
C8_SingleRangeIs206 ==
  (opts.acceptRanges /\ OneRange /\ Sent /\ ~reader.errored /\ res.socketWritable) =>
    /\ res.statusCode = 206
    /\ RangeHeadersAre(res.headers, Parsed.ranges[1], WindowLen)
    /\ (res.finished =>
          reader.read = Positions(opts.start + Parsed.ranges[1].start,
                                  opts.start + Parsed.ranges[1].end))

\* C8 as amended: with acceptRanges, a bytes Range that yields exactly one
\* range [s, e] against the window length len, and a fresh If-Range, unless
\* the conditional-GET support answers first (412 or 304): the status is
\* 206, Content-Range is `bytes s-e/len` and Content-Length is e-s+1 (until
\* a failed read replaces the response by an error page); a HEAD request
\* ends the response without reading; a GET reads a prefix of the positions
\* start+s..start+e, and all of them when the read ends, and then the 206
\* with these headers and these bytes went out.
C8_SingleRange ==
  (opts.acceptRanges /\ OneRange /\ Sent /\ ~Preempted) =>
    LET r == Parsed.ranges[1]
        all == Positions(opts.start + r.start, opts.start + r.end)
    IN /\ ~reader.errored =>
            (res.statusCode = 206 /\ RangeHeadersAre(res.headers, r, WindowLen))
       /\ req.method = "HEAD" =>
            (reader.state = "none" /\ res.finished /\ res.bytes = <<>>
               /\ res.sentStatus = 206 /\ RangeHeadersAre(res.sentHeaders, r, WindowLen))
       /\ req.method = "GET" =>
            /\ reader.state # "none"
            /\ Len(reader.read) <= Len(all)
            /\ reader.read = SubSeq(all, 1, Len(reader.read))
            /\ res.bytes = reader.read
            /\ reader.state = "ended" =>
                 (reader.read = all /\ res.sentStatus = 206
                    /\ RangeHeadersAre(res.sentHeaders, r, WindowLen))

\* two entries combine to one range of a window that starts at 1, and the
\* read has ended
C8_Witness ==
  /\ opts.acceptRanges /\ OneRange /\ Sent /\ ~Preempted
  /\ \E k \in 1..Len(RangeHeader) : RangeHeader[k] = ","
  /\ opts.start = 1
  /\ reader.state = "ended"
  /\ Len(reader.read) = 2
  /\ res.sentStatus = 206

\* C9 as stated (with acceptRanges, and reading "no body" as no byte of the
\* file): a bytes Range with no satisfiable range against the window length
\* len, and an If-Range that is not stale: the response is 416 with
\* `Content-Range: bytes */len`, no byte of the file is written, and the
\* file is not opened.
C9_UnsatisfiableIs416NoBody ==
  (opts.acceptRanges /\ NoSatisfiableRange /\ Sent) =>
    /\ res.sentStatus = 416
    /\ getHeader(res.sentHeaders, ContentRange) = <<"bytes", " ", "*", "/", ToString(WindowLen)>>
    /\ res.bytes = <<>>
    /\ log.opened = <<>>

\* C9 as amended: for a SendStream without an error listener and with
\* acceptRanges, a bytes Range with no satisfiable range against the window
\* length len, and an If-Range that is not stale, unless the conditional-GET
\* support answers first (412 or 304): the response is 416 with
\* `Content-Range: bytes */len`, its body is the error document and no byte
\* of the file, and the file is not opened (no stream event).
C9_UnsatisfiableIs416 ==
  (Unobserved /\ opts.acceptRanges /\ NoSatisfiableRange /\ Sent /\ ~Preempted) =>
    /\ log.errors = <<416>>
    /\ res.sentStatus = 416
    /\ getHeader(res.sentHeaders, ContentRange) = <<"bytes", " ", "*", "/", ToString(WindowLen)>>
    /\ res.doc = "error"
    /\ res.bytes = <<>>
    /\ log.opened = <<>>
    /\ reader.state = "none"
    /\ \A k \in 1..Len(log.events) : log.events[k] # "stream"

\* a first position past the end of a file that is not empty
C9_Witness ==
  /\ Unobserved /\ opts.acceptRanges /\ NoSatisfiableRange /\ Sent /\ ~Preempted
  /\ WindowLen > 0
  /\ RangeHeader = RangeOf(<<ToString(MaxPos), "-">>)
  /\ res.sentStatus = 416

\* C10: a suffix range `bytes=-N` with N larger than the size (size > 0) is
\* the single range [0, size-1], and the reply is 206 with it.
C10_LongSuffixIsClamped ==
  (\E n \in 0..MaxPos :
      /\ RangeHeader = RangeOf(<<"-", ToString(n)>>)
      /\ n > WindowLen
      /\ WindowLen > 0
      /\ opts.acceptRanges /\ IfRangeFresh /\ Sent /\ ~Preempted /\ ~reader.errored) =>
    /\ Parsed.kind = "ranges"
    /\ Parsed.ranges = <<[start |-> 0, end |-> WindowLen - 1]>>
    /\ res.statusCode = 206

----------------------------------------------------------------------------
(* Conditional requests (SpecCond) *)

\* the ETag and the Last-Modified of the response send() prepares: what the
\* `headers` listener set, else what the options make of the file
ResponseETag ==
  IF ETag \in DOMAIN opts.setHeaders THEN opts.setHeaders[ETag]
  ELSE IF opts.etag THEN etag(file) ELSE <<>>

ResponseLastModified ==
  IF LastModified \in DOMAIN opts.setHeaders THEN opts.setHeaders[LastModified]
  ELSE IF opts.lastModified THEN toUTCString(file.mtime) ELSE <<>>

IfRange == getHeader(req.headers, "if-range")

\* the instant of an HTTP-date is defined and not after that of another
NotAfter(a, b) ==
  ~parseHttpDate(a).nan /\ ~parseHttpDate(b).nan
    /\ parseHttpDate(a).v <= parseHttpDate(b).v

\* freshness of the range as the claim words it
IfRangeValidates ==
  IF \E k \in 1..Len(IfRange) : IfRange[k] = "\""
  THEN ResponseETag # <<>> /\ contains(IfRange, ResponseETag)
  ELSE NotAfter(ResponseLastModified, IfRange)

\* C11: a bytes Range with an If-Range (acceptRanges on, the conditional-GET
\* support not answering first, the read not failing): the range is honoured
\* (206 for one range, 416 for none satisfiable) if and only if If-Range
\* validates: holding a double quote, the response ETag occurs in it, else
\* Date(Last-Modified) <= Date(If-Range); when it does not validate the
\* status is left alone, Content-Length is len, there is no Content-Range
\* and no 416.
C11_StaleIfRangeIgnoresRange ==
  (opts.acceptRanges /\ BYTES_RANGE_REGEXP_test(RangeHeader) /\ IfRange # <<>>
     /\ Sent /\ ~Preempted /\ ~reader.errored) =>
    IF IfRangeValidates
    THEN /\ (Parsed.kind = "ranges" /\ Len(Parsed.ranges) = 1) => res.statusCode = 206
         /\ Parsed.kind = RangeUnsatisfiable => log.errors = <<416>>
    ELSE /\ res.statusCode \notin {206, 416}
         /\ log.errors = <<>>
         /\ getHeader(res.headers, ContentLength) = Num(WindowLen)
         /\ ContentRange \notin DOMAIN res.headers

----------------------------------------------------------------------------
(* Several ranges (SpecServe) *)

\* the Range header is a bytes range with at least one satisfiable range
SomeRanges == BYTES_RANGE_REGEXP_test(RangeHeader) /\ Parsed.kind = "ranges"

\* the headers say: the whole window, and no range
FullHeadersAre(h, len) ==
  /\ getHeader(h, ContentLength) = Num(len)
  /\ ContentRange \notin DOMAIN h

\* C12 as stated (with acceptRanges, and while no read has failed): a bytes
\* Range that holds more than one range after combining is answered 200
\* with Content-Length = len and no Content-Range; one that combines into
\* exactly one range is answered 206 for the merged range.
C12_SeveralRangesAre200 ==
  (opts.acceptRanges /\ SomeRanges /\ Sent /\ ~reader.errored) =>
    IF Len(Parsed.ranges) > 1
    THEN res.statusCode = 200 /\ FullHeadersAre(res.headers, WindowLen)
    ELSE res.statusCode = 206 /\ RangeHeadersAre(res.headers, Parsed.ranges[1], WindowLen)

\* C12 as amended: with acceptRanges and an If-Range that is absent or
\* validates, unless the conditional-GET support answers first (412 or
\* 304), and while no read has failed: a bytes Range that holds more than
\* one range after combining leaves the status alone (200), with
\* Content-Length = len and no Content-Range, and a GET whose read ends has
\* read the whole window and sent it as a 200; one that combines into
\* exactly one range gets 206 with the Content-Range and Content-Length of
\* the merged range.
C12_SeveralRanges ==
  (opts.acceptRanges /\ SomeRanges /\ IfRangeFresh /\ Sent /\ ~Preempted
     /\ ~reader.errored) =>
    IF Len(Parsed.ranges) > 1
    THEN /\ res.statusCode = 200
         /\ FullHeadersAre(res.headers, WindowLen)
         /\ res.headersSent =>
              (res.sentStatus = 200 /\ FullHeadersAre(res.sentHeaders, WindowLen))
         /\ reader.state = "ended" =>
              (/\ reader.read = Positions(opts.start, opts.start + WindowLen - 1)
               /\ res.bytes = reader.read
               /\ res.sentStatus = 200)
    ELSE res.statusCode = 206 /\ RangeHeadersAre(res.headers, Parsed.ranges[1], WindowLen)

\* two ranges that do not combine: the whole file went out as a 200
C12_Witness ==
  /\ opts.acceptRanges /\ SomeRanges /\ IfRangeFresh /\ Sent /\ ~Preempted
  /\ Len(Parsed.ranges) > 1
  /\ reader.state = "ended"
  /\ Len(res.bytes) = WindowLen
  /\ res.sentStatus = 200

----------------------------------------------------------------------------
(* Preconditions (SpecCond) *)

IfMatch == getHeader(req.headers, "if-match")

\* the members of the comma-separated If-Match list
IfMatchTokens == {parseTokenList(IfMatch)[k] : k \in 1..Len(parseTokenList(IfMatch))}

\* send() answered the request with 412, and with nothing else
PreconditionFailed == log.errors # <<>> /\ log.errors[1] = 412

\* C13 as stated: with If-Match present, the request fails with 412 exactly
\* when the response has no ETag, or the value is not `*` and no member tok
\* of the list has tok = etag or tok = "W/" + etag.
C13_IfMatchTwoForms ==
  (IfMatch # <<>> /\ Sent) =>
    (PreconditionFailed <=>
       \/ ResponseETag = <<>>
       \/ /\ IfMatch # <<"*">>
          /\ \A tok \in IfMatchTokens :
               tok # ResponseETag /\ tok # <<"W/">> \o ResponseETag)

\* C13 as amended: with If-Match present, send() (reached with the headers
\* not yet sent) fails the request with 412 exactly when the response has
\* no ETag, or the value is not `*` and no member tok of the list has
\* tok = etag, tok = "W/" + etag or "W/" + tok = etag; a request failed
\* with 412 gets no other answer and its file is not opened.
C13_IfMatch ==
  (IfMatch # <<>> /\ Sent) =>
    /\ PreconditionFailed <=>
         \/ ResponseETag = <<>>
         \/ /\ IfMatch # <<"*">>
            /\ \A tok \in IfMatchTokens :
                 /\ tok # ResponseETag
                 /\ tok # <<"W/">> \o ResponseETag
                 /\ <<"W/">> \o tok # ResponseETag
    /\ PreconditionFailed =>
         (log.errors = <<412>> /\ log.opened = <<>> /\ log.responses \in {<<>>, <<"error">>})

\* the strong form of the weak ETag passes If-Match and the file is served
C13_Witness ==
  /\ Sent
  /\ ResponseETag # <<>>
  /\ IfMatch = Tail(ResponseETag)
  /\ log.errors = <<>>
  /\ res.finished
  /\ res.sentStatus = 200


IfUnmodifiedSince == getHeader(req.headers, "if-unmodified-since")

\* If-Unmodified-Since is a date and the response has no (parseable)
\* Last-Modified or one later than that date
ModifiedSince ==
  /\ ~parseHttpDate(IfUnmodifiedSince).nan
  /\ \/ parseHttpDate(ResponseLastModified).nan
     \/ parseHttpDate(ResponseLastModified).v > parseHttpDate(IfUnmodifiedSince).v

\* C14 as stated: whatever other conditional headers the request carries,
\* when If-Unmodified-Since is a valid date and the response has no
\* Last-Modified or a later one, the request fails with 412.
C14_IfUnmodifiedSinceAlways ==
  (Sent /\ ModifiedSince) => PreconditionFailed

\* C14 as amended: for a request without If-Match, send() (reached with the
\* headers not yet sent) fails the request with 412 exactly when
\* If-Unmodified-Since is a valid date and the response has no parseable
\* Last-Modified or a later one; with If-Match present the outcome is that
\* of If-Match alone, whatever If-Unmodified-Since says.
C14_IfUnmodifiedSince ==
  Sent =>
    /\ IfMatch = <<>> => (PreconditionFailed <=> ModifiedSince)
    /\ (IfMatch # <<>> /\ ResponseETag # <<>>
          /\ (IfMatch = <<"*">> \/ ResponseETag \in IfMatchTokens)) => ~PreconditionFailed

\* no Last-Modified on the response: a valid If-Unmodified-Since fails it
C14_Witness ==
  /\ Sent
  /\ IfMatch = <<>>
  /\ IfUnmodifiedSince = toUTCString(file.mtime)
  /\ ResponseLastModified = <<>>
  /\ log.errors = <<412>>
  /\ log.opened = <<>>

----------------------------------------------------------------------------
(* Not modified (SpecCond) *)

\* the validators of the response fresh() is given
ResponseValidators ==
  [n \in {ETag, LastModified} |-> IF n = ETag THEN ResponseETag ELSE ResponseLastModified]

\* a precondition of the request fails (If-Match when present, else
\* If-Unmodified-Since)
PreconditionFails ==
  IF IfMatch # <<>>
  THEN \/ ResponseETag = <<>>
       \/ /\ IfMatch # <<"*">>
          /\ \A tok \in IfMatchTokens :
               /\ tok # ResponseETag
               /\ tok # <<"W/">> \o ResponseETag
               /\ <<"W/">> \o tok # ResponseETag
  ELSE ModifiedSince

\* the request is conditional, passes its preconditions, and is fresh
FreshRequest ==
  /\ isConditionalGET
  /\ ~PreconditionFails
  /\ fresh(req.headers, ResponseValidators)

\* 2xx or 304
Cacheable(status) == (status >= 200 /\ status < 300) \/ status = 304

\* the names of the content-* headers other than Content-Location
ContentHeaders(h) == {n \in DOMAIN h : n[1] = "content-" /\ n # ContentLocation}

\* a 304 as the claim describes it
NotModifiedReply ==
  /\ res.sentStatus = 304
  /\ res.finished
  /\ res.doc = ""
  /\ res.bytes = <<>>
  /\ ContentHeaders(res.sentHeaders) = {}
  /\ ContentLocation \in DOMAIN opts.setHeaders => ContentLocation \in DOMAIN res.sentHeaders
  /\ log.opened = <<>>
  /\ reader.state = "none"
  /\ \A k \in 1..Len(log.events) : log.events[k] \notin {"stream", "end", "error"}

\* the step in which the file is found and send() runs, when the request is
\* fresh: the reply is the 304 if the status the caller left is cacheable,
\* and is no 304 otherwise
C15_SendStep ==
  (~Sent /\ Sent' /\ FreshRequest) =>
    IF Cacheable(res.statusCode)
    THEN log'.responses = <<"notModified">> /\ NotModifiedReply'
    ELSE log'.responses # <<"notModified">> /\ res'.sentStatus # 304
           /\ res'.statusCode # 304

\* C15: when a conditional header is present, no precondition fails, the
\* status on the response is cacheable (2xx or 304) and fresh() reports
\* fresh, send() answers 304, ends the response without a body and without
\* any content-* header other than Content-Location, and the file is never
\* opened (no stream and no end event), now or later; when the status was
\* pre-set to a value that is not cacheable, no 304 is produced.
C15_NotModified ==
  /\ [][C15_SendStep]_vars
  /\ [](log.responses = <<"notModified">> => NotModifiedReply)
  /\ [](res.sentStatus = 304 => log.responses = <<"notModified">>)

\* a 304 that kept the Content-Location and the ETag and dropped the
\* Content-Type and Content-Language that were set before
C15_Witness ==
  /\ log.responses = <<"notModified">>
  /\ res.sentStatus = 304
  /\ ContentLocation \in DOMAIN res.sentHeaders
  /\ ETag \in DOMAIN res.sentHeaders
  /\ <<"content-", "language">> \in DOMAIN opts.setHeaders
  /\ ContentHeaders(res.sentHeaders) = {}
  /\ res.finishEmitted

----------------------------------------------------------------------------
(* HEAD (SpecServe) *)

\* a response nothing has been done to yet
Untouched == [World EXCEPT !.res = NewResponse(200), !.log = NewLog]

\* the headers send() prepares for the file before it looks at the request
PreparedHeaders == type(setHeader(Untouched, ss.p, file), ss.p).res.headers

\* the headers of an error document
DocHeaders == setDocHeaders(Untouched).res.headers

\* what the request headers, the options and the file make of the reply,
\* whatever the method: 412, 304, 416, 206 or 200
Outcome ==
  IF isConditionalGET /\ PreconditionFails THEN 412
  ELSE IF FreshRequest THEN 304
  ELSE IF opts.acceptRanges /\ NoSatisfiableRange THEN 416
  ELSE IF opts.acceptRanges /\ OneRange THEN 206
  ELSE 200

\* the headers that go with the outcome
OutcomeHeaders ==
  CASE Outcome = 412 -> DocHeaders
    [] Outcome = 304 ->
         [n \in DOMAIN PreparedHeaders \ ContentHeaders(PreparedHeaders) |-> PreparedHeaders[n]]
    [] Outcome = 416 ->
         withHeader(DocHeaders, ContentRange, <<"bytes", " ", "*", "/", ToString(WindowLen)>>)
    [] Outcome = 206 ->
         withHeader(
           withHeader(PreparedHeaders, ContentRange,
                      <<"bytes", " ", ToString(Parsed.ranges[1].start), "-",
                        ToString(Parsed.ranges[1].end), "/", ToString(WindowLen)>>),
           ContentLength,
           Num(Parsed.ranges[1].end - Parsed.ranges[1].start + 1))
    [] OTHER -> withHeader(PreparedHeaders, ContentLength, Num(WindowLen))

\* the status and headers on the wire are those of the outcome
OutcomeSent == res.sentStatus = Outcome /\ res.sentHeaders = OutcomeHeaders

\* a HEAD is answered at once, without the file
HeadReply ==
  /\ res.finished
  /\ res.headersSent
  /\ res.bytes = <<>>
  /\ log.opened = <<>>
  /\ reader.state = "none"
  /\ \A k \in 1..Len(log.events) : log.events[k] \notin {"stream", "end"}

----------------------------------------------------------------------------
(* The window of the file (SpecWindow) *)

\* offset and len of the reply: the window, narrowed by a single range
ReplyOffset ==
  IF opts.acceptRanges /\ OneRange THEN opts.start + Parsed.ranges[1].start ELSE opts.start

ReplyLen ==
  IF opts.acceptRanges /\ OneRange
  THEN Parsed.ranges[1].end - Parsed.ranges[1].start + 1
  ELSE WindowLen

\* C17: for every file size and every start / end option, a GET answered 200
\* or 206 whose read has ended has read exactly the positions offset ..
\* offset+len-1 and sent as many bytes as its Content-Length says; when len
\* is 0 (empty file, start at or past the end, end < start) Content-Length
\* is 0 and no byte is read or sent.
C17_ReadsWindow ==
  (req.method = "GET" /\ Sent /\ reader.state = "ended"
     /\ res.sentStatus \in {200, 206}) =>
    /\ reader.read = Positions(ReplyOffset, ReplyOffset + ReplyLen - 1)
    /\ res.bytes = reader.read
    /\ getHeader(res.sentHeaders, ContentLength) = Num(Len(res.bytes))
    /\ ReplyLen <= 0 =>
         (getHeader(res.sentHeaders, ContentLength) = Num(0) /\ res.bytes = <<>>)

----------------------------------------------------------------------------
(* The order of the events (Spec) *)

IsLifecycle(e) == e # "error"

\* the events of the request other than `error`, in the order emitted
Lifecycle == SelectSeq(log.events, IsLifecycle)

\* C18 as stated (its order; `error` may cut the sequence short): the
\* events of a request are emitted in the order headers, then directory
\* and nothing more, or headers, then file, then stream, then end.
C18_HeadersFirst ==
  \/ IsPrefix(Lifecycle, <<"headers", "directory">>)
  \/ IsPrefix(Lifecycle, <<"headers", "file", "stream", "end">>)

\* C18 as amended: the events of a request other than `error` are emitted
\* in the order file, headers, stream, end, each at most once and none
\* before an earlier one, or are the single event directory, which no
\* headers event precedes; stream is emitted only with the file opened and
\* end only by a read that has ended, and any of the later events may
\* never come (error, or the response finishing first).
C18_FileFirst ==
  /\ \/ Lifecycle = <<"directory">>
     \/ IsPrefix(Lifecycle, <<"file", "headers", "stream", "end">>)
  /\ (Lifecycle # <<>> /\ Lifecycle[Len(Lifecycle)] = "end") => reader.state = "ended"
  /\ (\E k \in 1..Len(Lifecycle) : Lifecycle[k] = "stream") => reader.state # "none"

\* a GET that ran to its end emitted all four events
C18_Witness ==
  /\ log.events = <<"file", "headers", "stream", "end">>
  /\ res.finished
  /\ res.bytes # <<>>

----------------------------------------------------------------------------
(* Error is terminal (Spec) *)

Emitted(e) == \E k \in 1..Len(log.events) : log.events[k] = e

----------------------------------------------------------------------------
(* The error observer (Spec) *)

\* a step in which error(status) is called
ErrorStep == Len(log'.errors) = Len(log.errors) + 1

\* the status error() is called with in this step
ErrorStatus == log'.errors[Len(log'.errors)]

\* the error is handed to the observer and the response is left as it is:
\* status code, headers sent, body and end untouched, no header removed,
\* none of the headers of an error document set
DeliveredOnly ==
  /\ \/ log'.events = log.events \o <<"error">>
     \/ log'.events = log.events \o <<"file", "headers", "error">>
     \/ log'.events = log.events \o <<"directory", "error">>
  /\ ErrorStatus \in {400, 403, 404, 412, 416, 500}
  /\ res'.statusCode = res.statusCode
  /\ res'.headersSent = res.headersSent
  /\ res'.sentStatus = res.sentStatus
  /\ res'.finished = res.finished
  /\ res'.doc = res.doc
  /\ res'.bytes = res.bytes
  /\ DOMAIN res.headers \subseteq DOMAIN res'.headers
  /\ ContentSecurityPolicy \notin DOMAIN res'.headers
  /\ XContentTypeOptions \notin DOMAIN res'.headers
  /\ getHeader(res'.headers, ContentLength) # <<"doc">>
  /\ log'.responses = log.responses
  /\ log'.ends = log.ends
  /\ ~log'.thrown

\* the Responder writes the error document itself, with the status
WrittenByResponder ==
  /\ log'.events = log.events \/ log'.events = log.events \o <<"file", "headers">>
  /\ log'.responses = Append(log.responses, "error")
  /\ res'.finished
  /\ res'.sentStatus = ErrorStatus
  /\ res'.doc = "error"
  /\ getHeader(res'.sentHeaders, ContentType) = <<"text/html; charset=UTF-8">>
  /\ ~log'.thrown

\* C20: with an error observer attached every error (400, 403, 404, 412,
\* 416, 500) is delivered to it with its status and the delivery writes
\* nothing to the response; without one the Responder writes the HTML error
\* response itself, with that status.
C20_ErrorDelivery ==
  [][ErrorStep => IF hasErrorListener THEN DeliveredOnly ELSE WrittenByResponder]_vars

----------------------------------------------------------------------------
(* The headers of the built-in error response (SpecCond) *)

\* the error response of a SendStream without an error listener is on the wire
ErrorPageSent == Unobserved /\ log.responses = <<"error">>

\* the headers the error carries: Content-Range for a 416, none otherwise
ErrorOwnHeaders ==
  IF res.sentStatus = 416
  THEN withHeader(NoHeaders, ContentRange,
                  <<"bytes", " ", "*", "/", ToString(windowLen(file.size))>>)
  ELSE NoHeaders

\* C21: the headers of the built-in error response are exactly the error's
\* own headers plus Content-Type, Content-Length, Content-Security-Policy
\* and X-Content-Type-Options: every header set before (ETag, Last-Modified,
\* Accept-Ranges, Cache-Control, Content-Type of the file, the headers of a
\* `headers` listener) is removed, a 416 keeps its Content-Range.
C21_ErrorHeaders ==
  ErrorPageSent =>
    /\ res.sentHeaders = withHeaders(ErrorOwnHeaders, DocHeaders)
    /\ res.headers = res.sentHeaders
    /\ res.sentStatus \in {404, 412, 416, 500}

\* a 412 sent after the file's headers and those of a `headers` listener
\* had been set, and a 416 likewise
C21_Witness ==
  /\ ErrorPageSent
  /\ res.sentStatus = 412
  /\ log.events = <<"file", "headers">>
  /\ ContentLocation \in DOMAIN opts.setHeaders
  /\ opts.etag
  /\ opts.lastModified
  /\ ETag \notin DOMAIN res.sentHeaders
  /\ ContentLocation \notin DOMAIN res.sentHeaders

----------------------------------------------------------------------------
(* A reader that fails after the headers are sent (Spec) *)

\* a step in which the reader fails while the response, whose headers are
\* on the wire, is still being written
ReaderFailsLate ==
  /\ ~reader.errored
  /\ reader'.errored
  /\ res.headersSent
  /\ ~ss.finished

\* the headers and the body of the response stay as they are
HeadersLeftAlone ==
  /\ res'.statusCode = res.statusCode
  /\ res'.headers = res.headers
  /\ res'.sentStatus = res.sentStatus
  /\ res'.sentHeaders = res.sentHeaders
  /\ res'.bytes = res.bytes
  /\ res'.doc = res.doc

\* C22: when the reader fails after the response headers have been sent the
\* reader is destroyed, an error of status 500 is surfaced through the error
\* path, nothing more is written, and no header of the response is cleared,
\* set or written in that step or in any later one.
C22_LateReaderFailure ==
  /\ [][ReaderFailsLate =>
          /\ reader'.state = "destroyed"
          /\ ErrorStep
          /\ ErrorStatus = 500
          /\ HeadersLeftAlone
          /\ ~log'.thrown]_vars
  /\ [][(reader.errored /\ res.headersSent) => (HeadersLeftAlone /\ ~log'.thrown)]_vars

----------------------------------------------------------------------------
(* The reader is released (SpecRelease) *)

\* the reader holds no file descriptor any more: it has ended (autoClose)
\* or it was destroyed
Released == reader.state \in {"ended", "destroyed"}

\* C23: every reader that is opened is eventually released, whether its
\* window is written to the end, the reader fails, or the response finishes
\* or its socket closes before the body is complete; a request that has come
\* to rest never holds an open reader.
C23_ReaderReleased == [](reader.state = "open" => <>Released)

\* the socket closed after the first byte and the reader, which had not
\* failed, was destroyed
C23_Witness ==
  /\ reader.state = "destroyed"
  /\ ~reader.errored
  /\ ~res.socketWritable
  /\ res.bytes # <<>>
  /\ ~res.finished

----------------------------------------------------------------------------
(* The index probe (SpecProbe) *)

\* the codes of a path that is not there
NotFoundCodes == {"ENAMETOOLONG", "ENOENT", "ENOTDIR"}

\* a candidate the probe passes over: a directory, or a path that is not there
Skipped(o) == o.kind = "dir" \/ (o.kind = "err" /\ o.code \in NotFoundCodes)

\* the request is answered by the index probe
IndexProbe == ss.pc # "new" /\ Len(opts.index) > 0 /\ hasTrailingSlash(World)

\* the k-th path handed to fs.stat is served: `file` is emitted and that
\* path is opened, and no other path is probed after it
ServedAt(k) ==
  /\ Len(log.statted) = k
  /\ Emitted("file")
  /\ log.opened = <<log.statted[k]>>

\* the probe ends at the k-th path with an error of `status`
FailedAt(k, status) ==
  /\ Len(log.statted) = k
  /\ ~Emitted("file")
  /\ log.opened = <<>>
  /\ log.errors = <<status>>

\* C24: the index probe stats path/name for the names of `index` in their
\* order; a directory and a candidate failing with ENOENT, ENOTDIR or
\* ENAMETOOLONG are passed over, the first candidate that is a file is
\* served, a stat failure with any other code ends the probe at that
\* candidate with that error (no later candidate is tried), and when every
\* candidate is passed over the result is 404.
C24_IndexProbeStops ==
  IndexProbe =>
    /\ \A k \in 1..Len(log.statted) : log.statted[k] = join(ss.resolved, opts.index[k])
    /\ \A k \in 1..Len(log.outcomes) :
         IF log.outcomes[k].kind = "file" THEN ServedAt(k)
         ELSE IF Skipped(log.outcomes[k])
         THEN IF k < Len(opts.index) THEN Len(log.statted) > k ELSE FailedAt(k, 404)
         ELSE FailedAt(k, 500)

----------------------------------------------------------------------------
(* The extension fallback (SpecProbe) *)

\* the request is answered by the file probe
FileProbe == ss.pc # "new" /\ ~(Len(opts.index) > 0 /\ hasTrailingSlash(World))

\* the stat of the bare path failed in the way that starts the fallback
FallbackEntered ==
  /\ log.outcomes[1] = [kind |-> "err", code |-> "ENOENT"]
  /\ noExtname(ss.resolved)
  /\ ss.resolved[Len(ss.resolved)] # sep

\* the status of onStatError's table for a failed stat; 404 for a directory
\* among the candidates
StatStatus(o) == IF o.kind = "err" /\ o.code \notin NotFoundCodes THEN 500 ELSE 404

\* C25: the file probe stats the bare path first. The extension fallback is
\* entered exactly when that stat fails with ENOENT and the path has no
\* extension and no trailing separator: path.ext is then stat'ed for the
\* configured extensions in their order, candidates that are directories
\* (or fail) are passed over and the first that is a file is served, under
\* the candidate's path; with no extension left the result is an error, 404
\* or 500 by the code of the last stat, and no file is served. Any other
\* failure of the bare path's stat is answered by the same table at once.
C25_ExtensionFallback ==
  FileProbe =>
    /\ log.statted[1] = ss.resolved
    /\ \A k \in 2..Len(log.statted) :
         log.statted[k] = ss.resolved \o <<".">> \o opts.extensions[k - 1]
    /\ Len(log.outcomes) >= 1 =>
         IF log.outcomes[1].kind = "file" THEN ServedAt(1)
         ELSE IF log.outcomes[1].kind = "dir"
         THEN Len(log.statted) = 1 /\ ~Emitted("file") /\ log.opened = <<>>
         ELSE IF ~FallbackEntered THEN FailedAt(1, StatStatus(log.outcomes[1]))
         ELSE \A k \in 1..Len(log.outcomes) :
                IF log.outcomes[k].kind = "file" THEN ServedAt(k)
                ELSE IF k - 1 < Len(opts.extensions) THEN Len(log.statted) > k
                ELSE FailedAt(k, StatStatus(log.outcomes[k]))

\* /a is not there, /a.h is a directory and /a.k, the second extension, is
\* the file that is served
C25_Witness ==
  /\ FileProbe
  /\ Len(log.outcomes) = 3
  /\ FallbackEntered
  /\ log.outcomes[2].kind = "dir"
  /\ log.outcomes[3].kind = "file"
  /\ ServedAt(3)
  /\ log.statted[3] = <<"/", "r", "/", "a", ".", "k">>

----------------------------------------------------------------------------
(* Directories under the mount (SpecMount) *)

\* the pathname of the URL the request came in with
OriginalPathname == pathnameOf(req.originalUrl)

\* the Location of the reply on the wire
SentLocation == getHeader(res.sentHeaders, Location)

\* the mount found a directory where it looked for a file
DirectoryFound == opts.mode = "mount" /\ Emitted("directory")

\* the 404 goes to the mount's error listener and nothing is written
NotFoundError ==
  /\ log.errors = <<404>>
  /\ log.responses = <<>>
  /\ ~res.headersSent
  /\ mnt.nexts = <<IF opts.fallthrough THEN 0 ELSE 404>>

----------------------------------------------------------------------------
(* Errors under the mount (SpecMount) *)

\* `file` is among the events emitted up to the end of this step
FileFired == \E k \in 1..Len(log'.events) : log'.events[k] = "file"

\* C27: every error emitted under the mount is handed to next exactly once:
\* as next(err) when fallthrough is off, when `file` has fired for the
\* request, or when the status is 500 or more, and as next() without an
\* error otherwise. With fallthrough on, a 400, 403 or 404 raised before a
\* file is chosen is deferred; 412, 416 and the failures of the reader come
\* after `file` and are forwarded.
C27_Forwarding ==
  [][(opts.mode = "mount" /\ ErrorStep) =>
       /\ log'.events = log.events \o <<"error">>
            \/ log'.events = log.events \o <<"file", "headers", "error">>
            \/ log'.events = log.events \o <<"directory", "error">>
       /\ mnt'.nexts = Append(mnt.nexts,
                              IF ~opts.fallthrough \/ FileFired \/ ErrorStatus >= 500
                              THEN ErrorStatus ELSE 0)]_vars

\* with fallthrough on, a failed If-Match is forwarded as next(err) with 412
C27_Witness ==
  /\ opts.mode = "mount"
  /\ opts.fallthrough
  /\ log.events = <<"file", "headers", "error">>
  /\ log.errors = <<412>>
  /\ mnt.nexts = <<412>>

----------------------------------------------------------------------------
(* The range parser (SpecParse) *)

\* the entries of the Range header, as listed
ListedEntries == Split(SubSeq(RangeHeader, indexOf(RangeHeader, "=") + 1, Len(RangeHeader)), ",")

\* the bytes an entry of the header asks for in a file of `size`: a-b is
\* the bytes a to b, a- those from a on, -n the last n; none for an entry
\* that is none of these, that starts past the end or before the file
BytesOf(size, e) ==
  LET all == 0..(size - 1)
  IN IF Len(e) = 3 /\ IsNumeral(e[1]) /\ e[2] = "-" /\ IsNumeral(e[3])
     THEN {b \in all : NumeralValue(e[1]) <= b /\ b <= NumeralValue(e[3])}
     ELSE IF Len(e) = 2 /\ IsNumeral(e[1]) /\ e[2] = "-"
     THEN {b \in all : NumeralValue(e[1]) <= b}
     ELSE IF Len(e) = 2 /\ e[1] = "-" /\ IsNumeral(e[2]) /\ NumeralValue(e[2]) <= size
     THEN {b \in all : size - NumeralValue(e[2]) <= b}
     ELSE {}

\* the bytes of the valid entries of the header
ListedBytes == UNION {BytesOf(file.size, ListedEntries[k]) : k \in 1..Len(ListedEntries)}

\* the bytes of a list of ranges
RangeBytes(ranges) == UNION {ranges[k].start..ranges[k].end : k \in 1..Len(ranges)}

\* every range lies in the file
WithinSize(ranges, size) ==
  \A k \in 1..Len(ranges) :
    0 <= ranges[k].start /\ ranges[k].start <= ranges[k].end /\ ranges[k].end < size

\* of any two ranges one ends at least 2 before the other starts
Apart(ranges) ==
  \A i, j \in 1..Len(ranges) :
    i # j => \/ ranges[i].end + 2 <= ranges[j].start
             \/ ranges[j].end + 2 <= ranges[i].start

\* C28: for a header with `=` the parser returns -1 when no listed entry is
\* a valid range of the file, and otherwise a non-empty list of ranges with
\* 0 <= start <= end < size whose bytes are those of the valid entries;
\* with combine the ranges of the list are pairwise apart (neither
\* overlapping nor adjacent).
C28_ParserInvariants ==
  \A combine \in BOOLEAN :
    LET r == rangeParser(file.size, RangeHeader, combine)
    IN /\ r.kind # RangeMalformed
       /\ r.kind = RangeUnsatisfiable <=> ListedBytes = {}
       /\ r.kind = "ranges" =>
            /\ Len(r.ranges) >= 1
            /\ WithinSize(r.ranges, file.size)
            /\ RangeBytes(r.ranges) = ListedBytes
            /\ combine => Apart(r.ranges)

\* a HEAD with three ranges, two of them adjacent, has been answered: the
\* parser combined them into two ranges
C28_Witness ==
  /\ RangeHeader = RangeOf(<<"0", "-", "0", ",", "3", "-", "3", ",", "1", "-", "1">>)
  /\ file.size = MaxSize + 1
  /\ Parsed.ranges = <<[start |-> 0, end |-> 1], [start |-> 3, end |-> 3]>>
  /\ log.responses = <<"head">>
  /\ res.sentStatus = 200

----------------------------------------------------------------------------
(* The order of the combined ranges (SpecParse) *)

\* the valid ranges of the header in the order the client listed them
ListedRanges == rangeParser(file.size, RangeHeader, FALSE).ranges

\* the place of the earliest-listed range that lies within the range r
EarliestWithin(r) ==
  CHOOSE k \in 1..Len(ListedRanges) :
    /\ r.start <= ListedRanges[k].start /\ ListedRanges[k].end <= r.end
    /\ \A j \in 1..(k - 1) :
         ~(r.start <= ListedRanges[j].start /\ ListedRanges[j].end <= r.end)

\* C29: with combine the parser returns the merged ranges in the order of
\* the request: each merged range stands at the place of the earliest
\* listed range merged into it, a range it fully contains included, and the
\* merged ranges are sorted by that place.
C29_RequestOrder ==
  Parsed.kind = "ranges" =>
    \A i, j \in 1..Len(Parsed.ranges) :
      i < j => EarliestWithin(Parsed.ranges[i]) < EarliestWithin(Parsed.ranges[j])

----------------------------------------------------------------------------
(* Cache-Control (SpecCache) *)

\* the file's headers are on the wire and no listener had set Cache-Control
CacheControlDue ==
  /\ Emitted("headers")
  /\ res.headersSent
  /\ res.sentStatus = 200
  /\ opts.cacheControl
  /\ CacheControl \notin DOMAIN opts.setHeaders

\* C30: with the cacheControl option on and no Cache-Control set before,
\* the header is `public, max-age=N` with N = floor(maxAge / 1000), followed
\* by `, immutable` exactly when the immutable option is on and maxAge > 0.
C30_CacheControl ==
  CacheControlDue =>
    getHeader(res.sentHeaders, CacheControl) =
      <<"public, max-age=", ToString(opts.maxage \div 1000)>>
        \o (IF opts.immutable /\ opts.maxage > 0 THEN <<", immutable">> ELSE <<>>)

----------------------------------------------------------------------------
(* Headers sent before the file is served (SpecSent) *)

\* a step in which a file is chosen while the headers of the response are
\* already on the wire
ServedTooLate ==
  /\ res.headersSent
  /\ Len(log'.events) > Len(log.events)
  /\ log'.events[Len(log.events) + 1] = "file"

\* C31: when the response headers are already sent as the chosen file is
\* about to be served, a 500 error is surfaced and nothing else is done to
\* the response: no header set or removed, no status set, no body written,
\* the file never opened, with and without an error listener.
C31_HeadersAlreadySent ==
  [][ServedTooLate =>
       /\ ErrorStep
       /\ ErrorStatus = 500
       /\ res' = res
       /\ reader' = reader
       /\ log'.opened = <<>>
       /\ log'.responses = log.responses
       /\ ~log'.thrown]_vars

----------------------------------------------------------------------------
(* The order of the decisions of send() (SpecCond) *)

\* the step in which send() is called for the file
SendStep == ~Sent /\ Sent'

\* the step answers 412: the error is raised, and no 304, 206 or 416 with it
Answers412 ==
  /\ log'.errors = <<412>>
  /\ log'.responses \in {<<>>, <<"error">>}
  /\ res'.statusCode \in {res.statusCode, 412}
  /\ ContentRange \notin DOMAIN res'.headers

\* the step answers 304, and no 206 or 416 with it
Answers304 ==
  /\ log'.responses = <<"notModified">>
  /\ log'.errors = <<>>
  /\ res'.sentStatus = 304
  /\ ContentRange \notin DOMAIN res'.sentHeaders

\* `headers` is emitted, and the listener's headers are set, before the
\* decision: the events of the step start with file, headers
HeadersFirst ==
  /\ Len(log'.events) >= 2
  /\ SubSeq(log'.events, 1, 2) = <<"file", "headers">>

\* C32 as stated: a request whose precondition fails gets 412 even when it
\* would be fresh, a fresh conditional request gets 304, never 206 or 416,
\* whatever its Range header, and all this after the `headers` event.
C32_FreshIsAlways304 ==
  [][SendStep =>
       /\ HeadersFirst
       /\ (isConditionalGET /\ PreconditionFails) => Answers412
       /\ FreshRequest => Answers304]_vars

\* C32: a request whose precondition fails gets 412 even when it would be
\* fresh; a fresh conditional request that passes its preconditions gets
\* 304, never 206 or 416, whatever its Range header, when the status on the
\* response is cacheable (2xx or 304), and no 304 otherwise; the decisions
\* come after the `headers` event and see the headers its listener set.
C32_DecisionOrder ==
  [][SendStep =>
       /\ HeadersFirst
       /\ (isConditionalGET /\ PreconditionFails) => Answers412
       /\ (FreshRequest /\ Cacheable(res.statusCode)) => Answers304
       /\ (FreshRequest /\ ~Cacheable(res.statusCode)) =>
            (log'.responses # <<"notModified">> /\ res'.statusCode # 304)]_vars

\* a fresh request with a Range past the end of the file was answered 304,
\* after a `headers` listener had set its headers
C32_Witness ==
  /\ RangeHeader = RangeOf(<<ToString(MaxSize), "-">>)
  /\ getHeader(req.headers, "if-none-match") = <<"*">>
  /\ ContentLocation \in DOMAIN opts.setHeaders
  /\ log.events = <<"file", "headers">>
  /\ log.responses = <<"notModified">>
  /\ res.sentStatus = 304
  /\ ContentLocation \in DOMAIN res.sentHeaders

----------------------------------------------------------------------------
(* The reader's failure against the end of the response (Spec) *)

\* a step in which the reader fails
ReaderFails == ~reader.errored /\ reader'.errored

\* a step in which the hook registered with onFinished runs: the response
\* has finished or its socket has closed
HookRuns == ~ss.finished /\ ss'.finished /\ ~ReaderFails

----------------------------------------------------------------------------
(* The base headers of send() (SpecBase) *)

BaseNames == {AcceptRanges, CacheControl, LastModified, ETag, ContentType}

\* the option that turns a base header on; Content-Type has none and is
\* due whenever the path has a mime type
BaseOption(n) ==
  CASE n = AcceptRanges -> opts.acceptRanges
    [] n = CacheControl -> opts.cacheControl
    [] n = LastModified -> opts.lastModified
    [] n = ETag -> opts.etag
    [] OTHER -> TRUE

\* the value send() gives a base header of its own
BaseDefault(n) ==
  CASE n = AcceptRanges -> <<"bytes">>
    [] n = CacheControl -> <<"public, max-age=", ToString(opts.maxage \div 1000)>>
    [] n = LastModified -> toUTCString(file.mtime)
    [] n = ETag -> etag(file)
    [] OTHER -> <<"text/html">>

\* before send(): the headers the caller left on the response, with those
\* of the `headers` listener over them
Carried == withHeaders(res.headers, opts.setHeaders)

\* the headers the claim expects after the base headers are composed: a
\* carried value stays when it is not empty, and a default fills in for a
\* name that is switched on
Composed ==
  [n \in DOMAIN Carried \cup {m \in BaseNames : BaseOption(m)} |->
     IF getHeader(Carried, n) # <<>> THEN Carried[n]
     ELSE IF n \in BaseNames /\ BaseOption(n) THEN BaseDefault(n)
     ELSE Carried[n]]

\* the running state with exactly the composed headers on the response
OnResponse == [World EXCEPT !.res.headers = Composed]

\* the step leaves the headers standing: no error document replaces them
HeadersStand == ~(ErrorStep /\ Unobserved)

\* the base headers the reply of the step still carries (a 304 drops
\* Content-Type with the other content headers)
StandingNames == IF Answers304 THEN BaseNames \ {ContentType} ELSE BaseNames

\* the step applies the Range header
RangeApplied == ContentRange \in DOMAIN res'.headers

\* C34 as stated: a base header the response already carries, from the
\* caller or from the `headers` listener, is never overwritten.
C34_NeverOverwritten ==
  [][(SendStep /\ HeadersStand) =>
       \A n \in StandingNames \cap DOMAIN Carried :
          /\ n \in DOMAIN res'.headers
          /\ res'.headers[n] = Carried[n]]_vars

\* C34: the `headers` listener runs before the defaults; each base header
\* keeps the non-empty value the caller or the listener gave it, takes its
\* default when it has none (or an empty one) and its option is on (for
\* Content-Type: always, from the mime type of the path), and is absent
\* otherwise; and the 412, 304 and If-Range decisions are those of the
\* ETag and Last-Modified then on the response.
C34_BaseHeaders ==
  [][SendStep =>
       /\ HeadersFirst
       /\ HeadersStand =>
            \A n \in StandingNames :
               /\ n \in DOMAIN res'.headers <=> n \in DOMAIN Composed
               /\ getHeader(res'.headers, n) = getHeader(Composed, n)
       /\ Answers412 <=> (isConditionalGET /\ isPreconditionFailure(OnResponse))
       /\ Answers304 <=>
            (isConditionalGET /\ ~isPreconditionFailure(OnResponse) /\ isFresh(OnResponse))
       /\ RangeApplied <=>
            /\ opts.acceptRanges
            /\ RangeHeader # <<>>
            /\ isRangeFresh(OnResponse)]_vars

\* a 304 for an If-None-Match naming the listener's ETag, with the etag
\* option on: the listener's tag is the one on the wire
C34_Witness ==
  /\ log.responses = <<"notModified">>
  /\ opts.etag
  /\ getHeader(opts.setHeaders, ETag) = OtherTag
  /\ getHeader(req.headers, "if-none-match") = OtherTag
  /\ getHeader(res.sentHeaders, ETag) = OtherTag

----------------------------------------------------------------------------
(* The sign of Content-Length (SpecWindow) *)

\* C35: for every stat size and every start / end option (end < start and
\* start > size included), the Content-Length on the response is never
\* negative: it is the length of an error document or a numeral from 0 up.
C35_ContentLengthNotNegative ==
  ContentLength \in DOMAIN res.headers =>
    \/ res.headers[ContentLength] = <<"doc">>
    \/ \E k \in 0..NumeralMax : res.headers[ContentLength] = Num(k)

----------------------------------------------------------------------------
(* Falling through the mount (SpecMount) *)

\* the mount's handler has called next() with no error
FellThrough == \E k \in 1..Len(mnt.nexts) : mnt.nexts[k] = 0

\* the response is as the caller handed it over with status s
AsOnEntry(s) ==
  /\ res.statusCode = s
  /\ res.headers = NoHeaders
  /\ ~res.headersSent
  /\ res.sentStatus = 0
  /\ res.sentHeaders = NoHeaders
  /\ res.doc = ""
  /\ res.bytes = <<>>
  /\ ~res.finished
  /\ log.responses = <<>>
  /\ log.ends = 0

\* C36: whenever the mount's handler falls through with next() and no error
\* (a method other than GET/HEAD, a 400/403/404 before a file is chosen, a
\* directory with redirect off), the response is as on entry: status code
\* unchanged, no header set or removed, nothing written, not ended.
C36_FallThroughLeavesResponse ==
  \A s \in EntryStatuses :
     res.statusCode = s => [](FellThrough => AsOnEntry(s))

\* a directory found with redirect off, fallen through on a response that
\* came in with status 404
C36_Witness ==
  /\ FellThrough
  /\ ~opts.redirect
  /\ log.errors = <<404>>
  /\ \E k \in 1..Len(log.events) : log.events[k] = "directory"
  /\ res.statusCode = 404

----------------------------------------------------------------------------
(* The memoized URL parses (SpecUrl) *)

\* C37: at any time, after any calls of parseUrl / getOriginalUrl, any
\* rewrite of the URLs and a handled request (a directory redirect
\* included), a memoized parse that is served for the current req.url or
\* req.originalUrl (its _raw is that URL) has the pathname of that URL.
C37_MemoConsistent ==
  /\ parsedFresh(req.url, mnt.parsedUrl) =>
       mnt.parsedUrl.pathname = pathnameOf(req.url)
  /\ parsedFresh(req.originalUrl, mnt.parsedOriginalUrl) =>
       mnt.parsedOriginalUrl.pathname = pathnameOf(req.originalUrl)

----------------------------------------------------------------------------
(* The listeners of onFinished (SpecFinished) *)

Listeners == OtherListeners \cup {"send"}

\* how often the listener l has been called
Calls(l) == Cardinality({k \in 1..Len(log.invoked) : log.invoked[k] = l})

IsRegistered(l) == \E k \in 1..Len(log.registered) : log.registered[k].l = l

\* l was registered while the message was not finished
IsEarly(l) ==
  \E k \in 1..Len(log.registered) : log.registered[k].l = l /\ ~log.registered[k].late

EarlyEntry(e) == ~e.late

\* the listeners registered before the message finished, in the order of
\* their registration
EarlyListeners ==
  [k \in 1..Len(SelectSeq(log.registered, EarlyEntry)) |->
     SelectSeq(log.registered, EarlyEntry)[k].l]

\* the message emits finish, or its socket fails or closes
EventStep ==
  \/ res'.finishEmitted # res.finishEmitted
  \/ res'.socketWritable # res.socketWritable
  \/ res'.closed # res.closed

\* a setImmediate runs its listener
ImmediateStep ==
  /\ ss.immediates # <<>>
  /\ ss'.immediates = Tail(ss.immediates)
  /\ log'.invoked = Append(log.invoked, Head(ss.immediates))

\* C38: every listener registered with onFinished is called at most once,
\* and never inside the onFinished call; one registered on a finished
\* message is deferred and then called; the others are called at the first
\* of the message's finish and the socket's error / close, all of them in
\* the order of their registration; no later event and no other step calls
\* a listener.
C38_ListenersOnce ==
  /\ [](\A l \in Listeners : Calls(l) <= 1)
  /\ [](\A l \in Listeners : Calls(l) = 1 => IsRegistered(l))
  /\ [](EarlyListeners = SelectSeq(log.invoked, IsEarly) \o ss.queue)
  /\ [][\A l \in Listeners :
          (~IsRegistered(l) /\ IsRegistered(l)') =>
             /\ log'.invoked = log.invoked
             /\ IF isFinished(res) THEN Deferred(l)' /\ ~IsEarly(l)'
                ELSE ss'.queue = Append(ss.queue, l)]_vars
  /\ [][EventStep =>
          (log'.invoked = log.invoked \o ss.queue /\ ss'.queue = <<>>)]_vars
  /\ [][log'.invoked # log.invoked => (EventStep \/ ImmediateStep)]_vars
  /\ \A l \in Listeners : [](Deferred(l) => <>(Calls(l) = 1 \/ log.thrown))

\* the SendStream's listener and x were queued and called, in that order,
\* at the finish of the response; y, registered after it, was called from
\* its setImmediate; the later close of the socket called nobody
C38_Witness ==
  /\ log.invoked = <<"send", "x", "y">>
  /\ res.finishEmitted
  /\ res.closed
  /\ log.registered = <<[l |-> "send", late |-> FALSE], [l |-> "x", late |-> FALSE],
                        [l |-> "y", late |-> TRUE]>>

====
